---- MODULE Spec2Model ----
(***************************************************************************)
(* Verification model of capsa-0/evolving-art-gui.                         *)
(*                                                                         *)
(* Part I  : the shatter-and-blend evaluation of a genome tree             *)
(*           (src/src/rendering/geometry_utils.py), specification SpecEval.*)
(* Part II : BackendAdapter and EvolveScreen as an event-driven state      *)
(*           machine (backend_adapter.py, evolve_screen.py), specification *)
(*           Spec.                                                         *)
(*                                                                         *)
(* Geometry is rastered: the plane is a strip of NumCells unit cells, a    *)
(* region is the set of cells it covers, and two regions touch when they   *)
(* share a cell border without sharing a cell.                             *)
(***************************************************************************)
EXTENDS Integers, Sequences, FiniteSets, TLC

\* ------------------------------------------------------------------ bounds
NumCells == 3
MaxNodes == 4
MaxGen   == 2      \* generations explored
MaxPop   == 1      \* largest population_size
MaxFaults == 1     \* environment failures injected in one run
MaxStack == 2      \* handlers nested through processEvents
NumGenomes == 2    \* distinct genomes (the mutation engine works modulo this)

Cells == 0 .. (NumCells - 1)

VARIABLES
    node,       \* the genome root handed to process_node
    geos,       \* which GEOS call raises during this evaluation, and where
    result,     \* outcome of process_node(node); "pending" before the call
    backend,    \* the BackendAdapter instance
    disk,       \* generation snapshots written by PopulationIO, per population
    screen,     \* the EvolveScreen instance and its widgets
    stack,      \* handlers in progress; the last one runs, the others wait
                \* inside QApplication.processEvents()
    ev,         \* the handler step taken last, with the message it showed
    faults,     \* environment failures so far (disk write, render worker,
                \* process pool)
    runs,       \* two independent runs of the backend from one creation form
    mut,        \* a genome under repeated mutation, with its MutationConfig
    exp,        \* a genome, its composition dict and the tree parsed from it
    ld,         \* an adapter, serialized data read from disk, and the load of it
    panel,      \* the MutationPanel slider moved last, the value it emitted and
                \* the live mutation config entry it set
    pure,       \* the list objects process_node allocated over several
                \* evaluations, and every list a call returned
    geo,        \* operands handed to fix_geom / safe_intersection /
                \* safe_difference, and what the call produced
    pool,       \* one call of render_all_previews_parallel: the futures of
                \* the process pool and the results list being filled
    ad          \* a BackendAdapter driven through its public methods, with
                \* the method called last and how it ended

evalVars == <<node, geos, result>>
appVars  == <<backend, disk, screen, stack, ev, faults>>
unitVars == <<runs, mut, exp, ld, panel, pure, geo, pool, ad>>
\* what the steps of one part leave alone
exceptRuns  == <<evalVars, appVars, mut, exp, ld, panel, pure, geo, pool, ad>>
exceptMut   == <<evalVars, appVars, runs, exp, ld, panel, pure, geo, pool, ad>>
exceptExp   == <<evalVars, appVars, runs, mut, ld, panel, pure, geo, pool, ad>>
exceptLd    == <<evalVars, appVars, runs, mut, exp, panel, pure, geo, pool, ad>>
exceptPanel == <<evalVars, appVars, runs, mut, exp, ld, pure, geo, pool, ad>>
exceptPure  == <<evalVars, appVars, runs, mut, exp, ld, panel, geo, pool, ad>>
exceptGeo   == <<evalVars, appVars, runs, mut, exp, ld, panel, pure, pool, ad>>
exceptPool  == <<evalVars, appVars, runs, mut, exp, ld, panel, pure, geo, ad>>
exceptAd    == <<evalVars, appVars, runs, mut, exp, ld, panel, pure, geo, pool>>
vars     == <<node, geos, result, backend, disk, screen, stack, ev, faults, runs, mut, exp, ld, panel, pure, geo, pool, ad>>

\* ============================================================ geometry
\* A shapely geometry: its geom_type, is_valid, the cells of positive area it
\* covers, and whether it has zero-area content (lines, points, a collapsed
\* ring), which makes it non-empty without covering any cell.
Geom(t, v, cs, d) == [type |-> t, valid |-> v, cells |-> cs, degen |-> d]

Connected(cs) == \A a \in cs, b \in cs : \A c \in a .. b : c \in cs

\* shapely.geometry.Polygon() : the empty polygon
Polygon == Geom("Polygon", TRUE, {}, FALSE)

\* a valid polygonal geometry covering cs
Polygonal(cs) ==
    Geom(IF Connected(cs) THEN "Polygon" ELSE "MultiPolygon", TRUE, cs, FALSE)

is_empty(g) == g.cells = {} /\ ~g.degen

PolygonTypes == {"Polygon", "MultiPolygon"}

GeosOps == {"intersection", "difference", "unary_union", "buffer", "affine"}

\* The GEOS call `op` raises (TopologyException and the like) when it is the
\* operation the environment makes fail and an operand covers the trouble
\* spot.  geos.op = "none" is the run in which no call raises.
Raises(op, cs) == geos.op = op /\ geos.spot \in cs

\* Border points shared by a and b that are not in the closure of a common
\* cell: there a.intersection(b) contributes a line, not area.
TouchPoints(a, b) ==
    { p \in 0 .. NumCells :
        /\ ((p - 1) \in a \/ p \in a)
        /\ ((p - 1) \in b \/ p \in b)
        /\ (p - 1) \notin (a \cap b)
        /\ p \notin (a \cap b) }

\* a.intersection(b) of two geometries, when GEOS does not raise
GeosIntersection(a, b) ==
    LET cs == a.cells \cap b.cells
        ln == TouchPoints(a.cells, b.cells) # {}
    IN  IF ln
        THEN Geom(IF cs = {} THEN "LineString" ELSE "GeometryCollection",
                  TRUE, cs, TRUE)
        ELSE Polygonal(cs)

\* a.difference(b), when GEOS does not raise
GeosDifference(a, b) == Polygonal(a.cells \ b.cells)

\* geom.buffer(0), when GEOS does not raise: the polygonal part survives
GeosBuffer0(g) == Polygonal(g.cells)

\* None: getattr(None, 'is_empty', True) is True
NoGeom == Geom("None", FALSE, {}, FALSE)

\* outcome of a call: either it raised, or it returned a value
Raised == [exc |-> TRUE, val |-> <<>>]
Returned(v) == [exc |-> FALSE, val |-> v]

\* mutant: the input is handed back when buffer(0) raises
fix_geom_with_keeps_input(geom, buffer0) ==
    IF is_empty(geom) THEN Polygon
    ELSE IF geom.valid /\ geom.type \in PolygonTypes /\ ~is_empty(geom)
    THEN geom
    ELSE IF buffer0.exc THEN geom
    ELSE LET repaired == buffer0.val IN
         IF is_empty(repaired) THEN Polygon
         ELSE IF repaired.type \in PolygonTypes
              THEN (IF ~is_empty(repaired) THEN repaired ELSE Polygon)
              ELSE IF repaired.type = "GeometryCollection"
                   THEN (IF repaired.cells = {} THEN Polygon
                         ELSE IF Raises("unary_union", repaired.cells) THEN Polygon
                         ELSE Polygonal(repaired.cells))
                   ELSE Polygon

\* fix_geom, given the outcome buffer0 of geom.buffer(0)
fix_geom_with(geom, buffer0) ==
    IF is_empty(geom) THEN Polygon
    ELSE IF geom.valid /\ geom.type \in PolygonTypes /\ ~is_empty(geom)
    THEN geom
    ELSE IF buffer0.exc THEN Polygon
    ELSE LET repaired == buffer0.val IN
         IF is_empty(repaired) THEN Polygon
         ELSE IF repaired.type \in PolygonTypes
              THEN (IF ~is_empty(repaired) THEN repaired ELSE Polygon)
              ELSE IF repaired.type = "GeometryCollection"
                   THEN (IF repaired.cells = {} THEN Polygon
                         ELSE IF Raises("unary_union", repaired.cells) THEN Polygon
                         ELSE Polygonal(repaired.cells))
                   ELSE Polygon

\* fix_geom: buffer(0) raises or repairs, as GEOS decides
fix_geom(geom) ==
    fix_geom_with(geom, IF Raises("buffer", geom.cells) THEN Raised
                        ELSE Returned(GeosBuffer0(geom)))

\* mutant: the left operand is handed back when the retry fails too
safe_intersection_keeps_left(a, b) ==
    IF is_empty(a) \/ is_empty(b) THEN Polygon
    ELSE IF ~Raises("intersection", a.cells \cup b.cells)
         THEN fix_geom(GeosIntersection(a, b))
         ELSE IF Raises("intersection", fix_geom(a).cells \cup fix_geom(b).cells)
              THEN a
              ELSE fix_geom(GeosIntersection(fix_geom(a), fix_geom(b)))

safe_intersection(a, b) ==
    IF is_empty(a) \/ is_empty(b) THEN Polygon
    ELSE IF ~Raises("intersection", a.cells \cup b.cells)
         THEN fix_geom(GeosIntersection(a, b))
         ELSE \* retry on the repaired operands: same operation, same spot
              IF Raises("intersection", fix_geom(a).cells \cup fix_geom(b).cells)
              THEN Polygon
              ELSE fix_geom(GeosIntersection(fix_geom(a), fix_geom(b)))

\* mutant: the operands of the subtraction are swapped
safe_difference_swapped(a, b) ==
    IF is_empty(a) THEN Polygon
    ELSE IF is_empty(b) THEN a
    ELSE fix_geom(GeosDifference(b, a))

safe_difference(a, b) ==
    IF is_empty(a) THEN Polygon
    ELSE IF is_empty(b) THEN a
    ELSE IF ~Raises("difference", a.cells \cup b.cells)
         THEN fix_geom(GeosDifference(a, b))
         ELSE IF Raises("difference", fix_geom(a).cells \cup fix_geom(b).cells)
              THEN a
              ELSE fix_geom(GeosDifference(fix_geom(a), fix_geom(b)))

\* shapely.ops.unary_union(list of geometries), when GEOS does not raise
RECURSIVE CellsOfAll(_)
CellsOfAll(gs) ==
    IF gs = <<>> THEN {} ELSE Head(gs).cells \cup CellsOfAll(Tail(gs))

GeosUnaryUnion(gs) == Polygonal(CellsOfAll(gs))

\* ============================================================ genome
\* TransformParams: sx scales about the origin (the left border of cell 0),
\* dx translates.  sy, theta and dy act across the strip and do not change
\* which cells are covered.
Transform(sx, dx) == [sx |-> sx, dx |-> dx]

\* polygon_vertices: the number of vertices of the ring, whether the ring is
\* simple (not self-crossing), and the cells it encloses.  n = 0 is None.
Vertices(n, simple, span) == [n |-> n, simple |-> simple, span |-> span]
NoVertices == Vertices(0, TRUE, {})

PrimitiveGene(kind, t, color, pv) ==
    [kind |-> kind, transform |-> t, color_rgb |-> color, polygon_vertices |-> pv]

Genes ==
    { PrimitiveGene("disk",      Transform(1, 0), <<"rgb", "red">>,    NoVertices),
      PrimitiveGene("disk",      Transform(1, 1), <<"rgb", "green">>,  NoVertices),
      PrimitiveGene("square",    Transform(1, 1), <<"rgb", "blue">>,   NoVertices),
      PrimitiveGene("square",    Transform(0, 1), <<"rgb", "grey">>,   NoVertices),
      PrimitiveGene("polygon",   Transform(1, 0), <<"rgb", "yellow">>,
                    Vertices(4, FALSE, {0, NumCells - 1})),
      PrimitiveGene("polygon",   Transform(1, 0), <<"rgb", "white">>,
                    Vertices(2, TRUE, {})),
      PrimitiveGene("primitive", Transform(1, 0), <<"rgb", "black">>,  NoVertices) }

PrimitiveNode(gene) == [cls |-> "PrimitiveNode", gene |-> gene]
OpNode(kind, children) == [cls |-> "OpNode", kind |-> kind, children |-> children]

OpKinds == {"union", "intersection", "difference"}

\* ColorAlgebra (src.core.shapes.geometry): the blend laws are kept symbolic,
\* a blended colour is the term that records how it was blended.
or_color(a, b) == <<"or", a, b>>
and_color(a, b) == <<"and", a, b>>

\* ------------------------------------------------- gene_to_shapely
AffinityScale(g, sx) ==
    IF is_empty(g) THEN g
    ELSE IF sx = 0 THEN Geom(g.type, FALSE, {}, TRUE)
    ELSE Geom(g.type, g.valid,
              { c \in Cells : \E b \in g.cells : \E k \in 0 .. (sx - 1) : c = b * sx + k },
              g.degen)

AffinityTranslate(g, dx) ==
    Geom(g.type, g.valid, { c \in Cells : (c - dx) \in g.cells }, g.degen)

gene_to_shapely(gene) ==
    IF gene.kind \notin {"disk", "square", "polygon"} THEN Raised
    ELSE IF gene.kind = "polygon" /\ gene.polygon_vertices.n \in 1 .. 2
    THEN Returned(Polygon)      \* Polygon(vertices) raised, caught
    ELSE
      LET base0 == CASE gene.kind = "disk"   -> Polygonal({0, 1})
                     [] gene.kind = "square" -> Polygonal({0})
                     [] OTHER -> IF gene.polygon_vertices.n = 0 THEN Polygon
                                 ELSE Geom("Polygon", gene.polygon_vertices.simple,
                                           gene.polygon_vertices.span, FALSE)
          base == fix_geom(base0)
          t    == gene.transform
      IN  IF Raises("affine", base.cells) THEN Returned(Polygon)
          ELSE Returned(fix_geom(AffinityTranslate(AffinityScale(base, t.sx), t.dx)))

\* ------------------------------------- _shatter_and_blend_with_color_alg
Patch(g, c) == [geom |-> g, color |-> c]

\* the loop over existing_patches; st carries next_gen_patches and shape_to_add
RECURSIVE ShatterLoop(_, _, _, _)
ShatterLoop(existing, new_color, next_gen_patches, shape_to_add) ==
    IF existing = <<>>
    THEN IF ~is_empty(shape_to_add)
         THEN Append(next_gen_patches, Patch(shape_to_add, new_color))
         ELSE next_gen_patches
    ELSE
      LET exist_geom  == Head(existing).geom
          exist_color == Head(existing).color
      IN
      IF is_empty(shape_to_add)
      THEN ShatterLoop(Tail(existing), new_color,
                       Append(next_gen_patches, Head(existing)), shape_to_add)
      ELSE
        LET intersection == safe_intersection(exist_geom, shape_to_add) IN
        IF is_empty(intersection)
        THEN ShatterLoop(Tail(existing), new_color,
                         Append(next_gen_patches, Head(existing)), shape_to_add)
        ELSE
          LET exist_non_overlap == safe_difference(exist_geom, shape_to_add)
              kept == IF ~is_empty(exist_non_overlap)
                      THEN Append(next_gen_patches, Patch(exist_non_overlap, exist_color))
                      ELSE next_gen_patches
              blended_color == or_color(exist_color, new_color)
          IN  ShatterLoop(Tail(existing), new_color,
                          Append(kept, Patch(intersection, blended_color)),
                          safe_difference(shape_to_add, exist_geom))

\* mutant: the early return taken for a non-empty new shape
shatter_returns_early(existing_patches, new_geom, new_color) ==
    LET shape_to_add == fix_geom(new_geom) IN
    IF ~is_empty(shape_to_add) THEN existing_patches
    ELSE ShatterLoop(existing_patches, new_color, <<>>, shape_to_add)

\* blend_mode is "or" at its only call site
_shatter_and_blend_with_color_alg(existing_patches, new_geom, new_color) ==
    LET shape_to_add == fix_geom(new_geom) IN
    IF is_empty(shape_to_add) THEN existing_patches
    ELSE ShatterLoop(existing_patches, new_color, <<>>, shape_to_add)

\* ------------------------------------------------------- process_node
\* the geometries of a list of partitions, flattened in order
RECURSIVE Flatten(_)
Flatten(lists) == IF lists = <<>> THEN <<>> ELSE Head(lists) \o Flatten(Tail(lists))

\* union: shatter every patch of every later child into the accumulator
RECURSIVE UnionFold(_, _)
UnionFold(current_patches, incoming) ==
    IF incoming = <<>> THEN current_patches
    ELSE UnionFold(_shatter_and_blend_with_color_alg(
                       current_patches, Head(incoming).geom, Head(incoming).color),
                   Tail(incoming))

\* intersection: one pass of the double loop over current_shapes x next_child_list
RECURSIVE IntersectRow(_, _)
IntersectRow(a, next_child_list) ==
    IF next_child_list = <<>> THEN <<>>
    ELSE LET b     == Head(next_child_list)
             inter == safe_intersection(a.geom, b.geom)
         IN  (IF ~is_empty(inter)
              THEN <<Patch(inter, and_color(a.color, b.color))>>
              ELSE <<>>) \o IntersectRow(a, Tail(next_child_list))

RECURSIVE IntersectPass(_, _)
IntersectPass(current_shapes, next_child_list) ==
    IF current_shapes = <<>> THEN <<>>
    ELSE IntersectRow(Head(current_shapes), next_child_list)
         \o IntersectPass(Tail(current_shapes), next_child_list)

RECURSIVE IntersectFold(_, _)
IntersectFold(current_shapes, rest) ==
    IF rest = <<>> THEN current_shapes
    ELSE IntersectFold(IntersectPass(current_shapes, Head(rest)), Tail(rest))

RECURSIVE SubtractAll(_, _)
SubtractAll(current_shapes, total_subtractor) ==
    IF current_shapes = <<>> THEN <<>>
    ELSE LET a    == Head(current_shapes)
             diff == safe_difference(a.geom, total_subtractor)
         IN  (IF ~is_empty(diff) THEN <<Patch(diff, a.color)>> ELSE <<>>)
             \o SubtractAll(Tail(current_shapes), total_subtractor)

\* mutant: the pieces emptied by the subtraction are kept
Difference_keeps_empty(children_results) ==
    LET current_shapes == Head(children_results)
        all            == Flatten(Tail(children_results))
        subtractors    == [i \in 1 .. Len(all) |-> all[i].geom]
    IN  IF subtractors = <<>> THEN current_shapes
        ELSE LET total_subtractor == fix_geom(GeosUnaryUnion(subtractors)) IN
             [i \in 1 .. Len(current_shapes) |->
                 Patch(safe_difference(current_shapes[i].geom, total_subtractor),
                       current_shapes[i].color)]

Difference(children_results) ==
    LET current_shapes == Head(children_results)
        all            == Flatten(Tail(children_results))
        subtractors    == [i \in 1 .. Len(all) |-> all[i].geom]
    IN  IF subtractors = <<>> THEN current_shapes
        ELSE IF Raises("unary_union", CellsOfAll(subtractors)) THEN current_shapes
        ELSE LET total_subtractor == fix_geom(GeosUnaryUnion(subtractors)) IN
             IF is_empty(total_subtractor) THEN current_shapes
             ELSE SubtractAll(current_shapes, total_subtractor)

\* children_results keeps only the children whose result is non-empty
Combine(kind, children_results) ==
    IF children_results = <<>> THEN <<>>
    ELSE CASE kind = "union" ->
                UnionFold(Head(children_results), Flatten(Tail(children_results)))
           [] kind = "intersection" ->
                IntersectFold(Head(children_results), Tail(children_results))
           [] kind = "difference" -> Difference(children_results)
           [] OTHER -> <<>>

NonEmptyList(res) == res # <<>>

RECURSIVE process_node(_)
process_node(n) ==
    IF n.cls = "PrimitiveNode"
    THEN LET g == gene_to_shapely(n.gene) IN
         IF g.exc THEN Raised
         ELSE IF is_empty(g.val) THEN Returned(<<>>)
         ELSE Returned(<<Patch(g.val, n.gene.color_rgb)>>)
    ELSE LET rs == [i \in 1 .. Len(n.children) |-> process_node(n.children[i])] IN
         IF \E i \in 1 .. Len(rs) : rs[i].exc THEN Raised
         ELSE Returned(Combine(n.kind,
                  SelectSeq([i \in 1 .. Len(rs) |-> rs[i].val], NonEmptyList)))

\* ---------------------------------------------- the genomes evaluated
\* every tree with exactly k nodes / every non-empty child list with k nodes
RECURSIVE TreesOfSize(_), ForestsOfSize(_)
TreesOfSize(k) ==
    IF k = 1 THEN { PrimitiveNode(g) : g \in Genes }
    ELSE { OpNode(op, cs) : op \in OpKinds, cs \in ForestsOfSize(k - 1) }
ForestsOfSize(k) ==
    UNION { { <<t>> \o f : t \in TreesOfSize(j),
                           f \in (IF j = k THEN {<<>>} ELSE ForestsOfSize(k - j)) }
            : j \in 1 .. k }

Genomes == UNION { TreesOfSize(k) : k \in 1 .. MaxNodes }

Oracles == {[op |-> "none", spot |-> 0]}
           \cup { [op |-> o, spot |-> c] : o \in GeosOps, c \in Cells }

\* the square primitive, evaluated without failures
IdleNode == PrimitiveNode(CHOOSE g \in Genes : g.kind = "square" /\ g.transform.sx = 1)

\* ================================================================
\* Part II : BackendAdapter
\* ================================================================
Names    == {"A"}
Seeds    == {0}
Indices  == 0 .. (MaxPop - 1)

\* the arguments evolve may be called with: subsets of the indices and of
\* one index past the end
Selections == SUBSET (0 .. MaxPop)

\* the environment's part in one handler step: whether the snapshot write
\* succeeds, which render worker raises (none or one), whether the process
\* pool itself raises.  At most MaxFaults of these failures occur in a run.
NoFault == [io_ok |-> TRUE, failed |-> {}, crash |-> FALSE]
Faults ==
    {NoFault} \cup
    (IF faults < MaxFaults
     THEN {[NoFault EXCEPT !.io_ok = FALSE], [NoFault EXCEPT !.crash = TRUE]}
          \cup { [NoFault EXCEPT !.failed = {i}] : i \in Indices }
     ELSE {})
Count(f) == IF f = NoFault THEN 0 ELSE 1

NoCfg == [population_size |-> 0, num_genes |-> 0, random_seed |-> 0]

\* BackendAdapter.__init__
NewBackend ==
    [ pop_name   |-> "",
      generation |-> 0,
      population |-> <<>>,       \* pop_state.population
      rng        |-> 0,          \* pop_state's random stream
      cfg        |-> NoCfg,      \* pop_state.cfg
      dirs       |-> FALSE,      \* self.dirs is non-empty
      cache      |-> <<>> ]      \* _image_cache: (generation, idx) -> bytes

\* a generation file of PopulationIO, or its absence
NoFile == [exists |-> FALSE, generation |-> 0, config |-> NoCfg, population |-> <<>>]
File(g, cfg, pop) == [exists |-> TRUE, generation |-> g, config |-> cfg, population |-> pop]

EmptyDisk == [n \in Names |-> [g \in 0 .. MaxGen |-> NoFile]]

\* outcome of a backend call: the exception raised ("none" if it returned),
\* the adapter afterwards, and the disk afterwards
Outcome(exc, be, dsk) == [exc |-> exc, be |-> be, dsk |-> dsk]

\* ---- PopulationStateManager and src.core.evolution
\* genomes are numbered; the seeded stream is a counter modulo NumGenomes
initialize_population(size, seed) ==
    [i \in 1 .. size |-> (seed + i - 1) % NumGenomes]

SetToSeq(S) ==
    LET RECURSIVE Build(_)
        Build(T) == IF T = {} THEN <<>>
                    ELSE LET m == CHOOSE x \in T : \A y \in T : x <= y
                         IN  <<m>> \o Build(T \ {m})
    IN  Build(S)

InvalidSelection(selected_indices, population) ==
    \/ selected_indices = {}
    \/ \E i \in selected_indices : i < 0 \/ i >= Len(population)

\* mutant: one offspring per selected parent
next_population_of_parents_only(population, selected_indices, rng) ==
    LET parents == SetToSeq(selected_indices) IN
    [k \in 1 .. Len(parents) |->
        (population[parents[k] + 1] + rng + k) % NumGenomes]

\* offspring k of the next generation: a mutated copy of the parent chosen by
\* cycling through the selected indices
next_population(population, selected_indices, rng) ==
    LET parents == SetToSeq(selected_indices) IN
    [k \in 1 .. Len(population) |->
        (population[parents[((k - 1) % Len(parents)) + 1] + 1] + rng + k) % NumGenomes]

\* genome_to_png_bytes: the preview of a genome
genome_to_png_bytes(genome) == [png |-> genome]
FailedRender == [png |-> -1]     \* b"" : the worker raised

\* mutant: the generation counter is not reset
BA_initialize_keeps_generation(be, dsk, pop_size, genes, seed, pop_name) ==
    LET cfg == [population_size |-> pop_size, num_genes |-> genes, random_seed |-> seed]
        pop == initialize_population(pop_size, seed)
        be1 == [be EXCEPT !.population = pop, !.rng = seed % NumGenomes, !.cfg = cfg,
                          !.pop_name = pop_name, !.dirs = TRUE]
    IN  Outcome("none", be1,
                [dsk EXCEPT ![pop_name][0] = File(0, cfg, pop)])

\* ---- BackendAdapter.initialize
BA_initialize(be, dsk, pop_size, genes, seed, pop_name) ==
    LET cfg == [population_size |-> pop_size, num_genes |-> genes, random_seed |-> seed]
        pop == initialize_population(pop_size, seed)
        be1 == [be EXCEPT !.population = pop, !.rng = seed % NumGenomes, !.cfg = cfg,
                          !.pop_name = pop_name, !.generation = 0, !.dirs = TRUE]
    IN  Outcome("none", be1,
                [dsk EXCEPT ![pop_name][0] = File(0, cfg, pop)])

\* dict.get(key, default)
Get(d, key, default) == IF key \in DOMAIN d THEN d[key] ELSE default

\* the dict PopulationIO reads from a generation file it wrote
Serialized(file) ==
    [ config     |-> file.config,
      data       |-> [population |-> file.population],
      generation |-> file.generation ]

\* PopulationStateManager.load_from_data
load_from_data(be, config_data, pop_data) ==
    [be EXCEPT !.population = pop_data,
               !.cfg = config_data,
               !.rng = config_data.random_seed % NumGenomes]

\* ---- BackendAdapter.load_population, from the dict read from disk
load_population_data(be, dsk, pop_name, data) ==
    IF "config" \notin DOMAIN data THEN Outcome("KeyError", be, dsk)
    ELSE IF "data" \notin DOMAIN data THEN Outcome("KeyError", be, dsk)
    ELSE IF "population" \notin DOMAIN data.data THEN Outcome("KeyError", be, dsk)
    ELSE Outcome("none",
                 [load_from_data(be, data.config, data.data.population) EXCEPT
                     !.pop_name = pop_name,
                     !.generation = Get(data, "generation", 0),
                     !.dirs = TRUE],
                 dsk)

\* ---- BackendAdapter.load_population; k is the generation recorded in the
\* data PopulationIO.load_population_data returns
BA_load_population(be, dsk, pop_name, k) ==
    LET file == dsk[pop_name][k] IN
    IF ~file.exists THEN Outcome("FileNotFoundError", be, dsk)
    ELSE load_population_data(be, dsk, pop_name, Serialized(file))

\* mutant: entries one generation older are kept
PruneCache_keeps_older(cache, generation) ==
    LET keep == { key \in DOMAIN cache : ~(key[1] < generation - 3) }
    IN  [key \in keep |-> cache[key]]

\* ---- BackendAdapter.evolve
PruneCache(cache, generation) ==
    LET keep == { key \in DOMAIN cache : ~(key[1] < generation - 2) }
    IN  [key \in keep |-> cache[key]]

\* mutant: the counter is advanced before pop_state.evolve is called
BA_evolve_counts_first(be, dsk, selected_indices) ==
    LET be1 == [be EXCEPT !.cache = PruneCache(be.cache, be.generation),
                          !.generation = be.generation + 1] IN
    IF InvalidSelection(selected_indices, be.population)
    THEN Outcome("InvalidSelection", be1, dsk)
    ELSE Outcome("none",
                 [be1 EXCEPT !.population =
                                 next_population(be.population, selected_indices, be.rng),
                             !.rng = (be.rng + 1) % NumGenomes],
                 dsk)

\* mutant: the counter is left alone
BA_evolve_no_increment(be, dsk, selected_indices) ==
    LET be1 == [be EXCEPT !.cache = PruneCache(be.cache, be.generation)] IN
    IF InvalidSelection(selected_indices, be.population)
    THEN Outcome("InvalidSelection", be1, dsk)
    ELSE Outcome("none",
                 [be1 EXCEPT !.population =
                                 next_population(be.population, selected_indices, be.rng),
                             !.rng = (be.rng + 1) % NumGenomes],
                 dsk)

BA_evolve(be, dsk, selected_indices) ==
    LET be1 == [be EXCEPT !.cache = PruneCache(be.cache, be.generation)] IN
    IF InvalidSelection(selected_indices, be.population)
    THEN Outcome("InvalidSelection", be1, dsk)      \* pop_state.evolve raised
    ELSE Outcome("none",
                 [be1 EXCEPT !.population =
                                 next_population(be.population, selected_indices, be.rng),
                             !.rng = (be.rng + 1) % NumGenomes,
                             !.generation = be.generation + 1],
                 dsk)

\* mutant: the snapshot written becomes the current generation plus one
BA_save_generation_state_advances(be, dsk, generation, io_ok) ==
    IF ~be.dirs THEN Outcome("RuntimeError", be, dsk)
    ELSE Outcome("none", [be EXCEPT !.generation = generation + 1], dsk)

\* ---- BackendAdapter.save_generation_state; io_ok: the write succeeds
BA_save_generation_state(be, dsk, generation, io_ok) ==
    IF ~be.dirs THEN Outcome("RuntimeError", be, dsk)
    ELSE IF ~io_ok THEN Outcome("OSError", be, dsk)
    ELSE Outcome("none", be,
                 [dsk EXCEPT ![be.pop_name][generation] =
                                 File(generation, be.cfg, be.population)])

\* an empty dict, which Python takes for false
EmptyDict == <<>>

\* ---- BackendAdapter.load_generation, from the dict read from disk
load_generation_data(be, dsk, generation, data) ==
    LET config_data     == Get(data, "config", EmptyDict)
        population_data == Get(Get(data, "data", EmptyDict), "population", <<>>)
    IN  IF config_data = EmptyDict THEN Outcome("KeyError", be, dsk)
        ELSE Outcome("none",
                     [load_from_data(be, config_data, population_data) EXCEPT
                         !.generation = Get(data, "generation", generation),
                         !.dirs = TRUE],
                     dsk)

\* ---- BackendAdapter.load_generation
BA_load_generation(be, dsk, generation) ==
    IF be.pop_name = "" THEN Outcome("RuntimeError", be, dsk)
    ELSE IF generation \notin 0 .. MaxGen \/ ~dsk[be.pop_name][generation].exists
    THEN Outcome("FileNotFoundError", be, dsk)
    ELSE load_generation_data(be, dsk, generation,
                              Serialized(dsk[be.pop_name][generation]))

\* ---- BackendAdapter.render_all_previews_parallel(use_cache=True);
\* failed: the indices whose worker raises
BA_render_all_previews_parallel(be, failed) ==
    LET n      == Len(be.population)
        cached == [i \in 0 .. (n - 1) |-> <<be.generation, i>> \in DOMAIN be.cache]
    IN  IF \A i \in 0 .. (n - 1) : cached[i]
        THEN [images |-> [i \in 1 .. n |-> be.cache[<<be.generation, i - 1>>]],
              be     |-> be]
        ELSE LET rendered == [i \in 0 .. (n - 1) |->
                                 IF i \in failed THEN FailedRender
                                 ELSE genome_to_png_bytes(be.population[i + 1])]
                 fresh    == { <<be.generation, i>> : i \in (0 .. (n - 1)) \ failed }
             IN  [images |-> [i \in 1 .. n |-> rendered[i - 1]],
                  be     |-> [be EXCEPT !.cache =
                                 [key \in DOMAIN be.cache \cup fresh |->
                                     IF key \in fresh
                                     THEN rendered[key[2]]
                                     ELSE be.cache[key]]]]

\* ================================================================
\* Part II : EvolveScreen
\* ================================================================
None == -1      \* current_selected_index is None

\* EvolveScreen.__init__
NewScreen ==
    [ generation             |-> 0,
      pop_name               |-> "",
      selected_indices       |-> {},
      current_selected_index |-> None,
      btn_evolve             |-> TRUE,      \* isEnabled()
      btn_prev_gen           |-> TRUE,
      widgets                |-> <<>>,      \* the IndividualWidgets in the grid
      loading                |-> FALSE,     \* loading_label is shown
      cursor                 |-> 0 ]        \* depth of the override-cursor stack

IndividualWidget(image) == [image |-> image, is_selected |-> FALSE]

Frame(h, pc) == [h |-> h, pc |-> pc]
Top == stack[Len(stack)]
Pop(st) == SubSeq(st, 1, Len(st) - 1)

\* a click is delivered by the event loop: when no handler runs, or from
\* inside the processEvents() call of the handler that runs
CanDispatch == screen.pop_name # ""

\* ---- render_population_grid, up to QApplication.processEvents()
RenderGridBegin(scr) ==
    [scr EXCEPT !.widgets = <<>>,
                !.selected_indices = {},
                !.current_selected_index = None,
                !.cursor = @ + 1]

\* mutant: the keys of the current generation are left in the cache
DropCurrent_keeps_cache(be) == be

\* ---- render_population_grid: _image_cache.pop((generation, idx), None)
\* for every idx of the population
DropCurrent(be) ==
    [be EXCEPT !.cache =
        [key \in { q \in DOMAIN be.cache :
                     ~(q[1] = be.generation /\ q[2] < Len(be.population)) }
            |-> be.cache[key]]]

\* ---- render_population_grid, after processEvents(); crash: the process
\* pool raises out of render_all_previews_parallel
RenderGridEnd(scr, be, failed, crash) ==
    LET be1 == DropCurrent(be) IN
    IF crash
    THEN [exc |-> "BrokenProcessPool", scr |-> scr, be |-> be1]
    ELSE LET r == BA_render_all_previews_parallel(be1, failed) IN
         [exc |-> "none",
          scr |-> [scr EXCEPT !.cursor = @ - 1,
                              !.widgets = [i \in 1 .. Len(r.images) |->
                                              IndividualWidget(r.images[i])]],
          be  |-> r.be]

\* mutant: the generation handed in is not stored
set_population_data_keeps_generation(scr, be, pop_name, generation, failed) ==
    LET scr1 == [scr EXCEPT !.pop_name = pop_name]
        r    == RenderGridEnd(RenderGridBegin(scr1), be, failed, FALSE)
    IN  [scr |-> [r.scr EXCEPT !.btn_evolve = TRUE,
                               !.btn_prev_gen = (generation > 0)],
         be  |-> r.be]

\* ---- MainWindow: population_created -> backend.initialize, then
\* evolve_screen.set_population_data
set_population_data(scr, be, pop_name, generation, failed) ==
    LET scr1 == [scr EXCEPT !.pop_name = pop_name, !.generation = generation]
        r    == RenderGridEnd(RenderGridBegin(scr1), be, failed, FALSE)
    IN  [scr |-> [r.scr EXCEPT !.btn_evolve = TRUE,
                               !.btn_prev_gen = (generation > 0)],
         be  |-> r.be]

CreatePopulation ==
    /\ UNCHANGED <<evalVars, unitVars>>
    /\ stack = <<>>
    /\ \E pop_name \in Names, pop_size \in 1 .. MaxPop, seed \in Seeds, f \in Faults :
          /\ ~disk[pop_name][0].exists
          /\ f.io_ok /\ ~f.crash
          /\ LET o == BA_initialize(backend, disk, pop_size, 1, seed, pop_name)
                 r == set_population_data(screen, o.be, pop_name, o.be.generation, f.failed)
             IN  /\ backend' = r.be
                 /\ disk' = o.dsk
                 /\ screen' = r.scr
          /\ faults' = faults + Count(f)
    /\ ev' = "create_population"
    /\ UNCHANGED stack

LoadPopulation ==
    /\ UNCHANGED <<evalVars, unitVars>>
    /\ stack = <<>>
    /\ \E pop_name \in Names, k \in 0 .. MaxGen, f \in Faults :
          LET o == BA_load_population(backend, disk, pop_name, k) IN
          /\ o.exc = "none"
          /\ f.io_ok /\ ~f.crash
          /\ LET r == set_population_data(screen, o.be, pop_name, o.be.generation, f.failed)
             IN  /\ backend' = r.be
                 /\ screen' = r.scr
          /\ faults' = faults + Count(f)
    /\ ev' = "load_population"
    /\ UNCHANGED <<disk, stack>>

\* mutant: deselecting the current individual leaves it current
HandleSelection_keeps_current ==
    /\ UNCHANGED <<evalVars, unitVars>>
    /\ CanDispatch
    /\ \E index \in Indices :
        /\ index < Len(screen.widgets)
        /\ LET is_selected == ~screen.widgets[index + 1].is_selected IN
           screen' = [screen EXCEPT
               !.widgets[index + 1].is_selected = is_selected,
               !.selected_indices =
                   IF is_selected THEN @ \cup {index} ELSE @ \ {index},
               !.current_selected_index = IF is_selected THEN index ELSE @]
    /\ ev' = "handle_selection"
    /\ UNCHANGED <<backend, disk, stack, faults>>

\* ---- IndividualWidget.toggle_select -> EvolveScreen.handle_selection
HandleSelection ==
    /\ UNCHANGED <<evalVars, unitVars>>
    /\ CanDispatch
    /\ \E index \in Indices :
        /\ index < Len(screen.widgets)
        /\ LET is_selected == ~screen.widgets[index + 1].is_selected IN
           screen' = [screen EXCEPT
               !.widgets[index + 1].is_selected = is_selected,
               !.selected_indices =
                   IF is_selected THEN @ \cup {index} ELSE @ \ {index},
               !.current_selected_index =
                   IF is_selected THEN index
                   ELSE IF @ = index THEN None ELSE @]
    /\ ev' = "handle_selection"
    /\ UNCHANGED <<backend, disk, stack, faults>>

\* ---- evolve_step, from the click to processEvents() in _show_loading_message
EvolveStepBegin ==
    /\ UNCHANGED <<evalVars, unitVars>>
    /\ CanDispatch
    /\ screen.btn_evolve
    /\ LET sel == IF screen.selected_indices = {} /\ screen.current_selected_index # None
                  THEN {screen.current_selected_index}
                  ELSE screen.selected_indices
       IN  IF sel = {}
           THEN /\ ev' = "evolve_step: Selection Required"
                /\ UNCHANGED <<screen, stack>>
           ELSE /\ Len(stack) < MaxStack
                /\ backend.generation + Len(stack) < MaxGen
                /\ screen' = [screen EXCEPT !.selected_indices = sel,
                                            !.widgets = <<>>,
                                            !.loading = TRUE]
                /\ stack' = Append(stack, Frame("evolve_step", "loading"))
                /\ ev' = "evolve_step: loading"
    /\ UNCHANGED <<backend, disk, faults>>

\* the except and finally clauses of evolve_step
EvolveStepFailed(scr, exc) ==
    /\ screen' = [scr EXCEPT !.loading = FALSE,
                             !.cursor = @ - 1,
                             !.btn_evolve = TRUE]
    /\ ev' = "evolve_step: Error during evolution: " \o exc
    /\ stack' = Pop(stack)

\* the rest of the try block of evolve_step after render_population_grid
EvolveStepDone(scr) ==
    /\ screen' = [scr EXCEPT !.loading = FALSE,
                             !.btn_prev_gen = (scr.generation > 0),
                             !.cursor = @ - 1,
                             !.btn_evolve = TRUE]
    /\ ev' = "evolve_step: Generation created and saved"
    /\ stack' = Pop(stack)

\* ---- evolve_step, from the return of processEvents() to the
\* processEvents() in render_population_grid
EvolveStepEvolve ==
    /\ UNCHANGED <<evalVars, unitVars>>
    /\ stack # <<>> /\ Top = Frame("evolve_step", "loading")
    /\ LET scr1 == [screen EXCEPT !.btn_evolve = FALSE, !.cursor = @ + 1]
           o    == BA_evolve(backend, disk, screen.selected_indices)
       IN  IF o.exc # "none"
           THEN /\ backend' = o.be
                /\ disk' = disk
                /\ faults' = faults
                /\ EvolveStepFailed(scr1, o.exc)
           ELSE \E f \in Faults :
                LET scr2 == [scr1 EXCEPT !.generation = o.be.generation]
                    w    == BA_save_generation_state(o.be, disk, scr2.generation, f.io_ok)
                IN  /\ f.failed = {} /\ ~f.crash
                    /\ faults' = faults + Count(f)
                    /\ backend' = o.be
                    /\ disk' = w.dsk
                    /\ IF w.exc # "none"
                       THEN EvolveStepFailed(scr2, w.exc)
                       ELSE IF o.be.population = <<>>
                       THEN EvolveStepDone(
                                [scr2 EXCEPT !.widgets = <<>>,
                                             !.selected_indices = {},
                                             !.current_selected_index = None])
                       ELSE /\ screen' = RenderGridBegin(scr2)
                            /\ stack' = [stack EXCEPT ![Len(stack)].pc = "render"]
                            /\ ev' = "evolve_step: rendering"

\* ---- evolve_step, from the return of processEvents() in
\* render_population_grid to the end
EvolveStepFinish ==
    /\ UNCHANGED <<evalVars, unitVars>>
    /\ stack # <<>> /\ Top = Frame("evolve_step", "render")
    /\ \E f \in Faults :
        LET r == RenderGridEnd(screen, backend, f.failed, f.crash) IN
        /\ f.io_ok
        /\ faults' = faults + Count(f)
        /\ backend' = r.be
        /\ IF r.exc # "none"
           THEN EvolveStepFailed(r.scr, r.exc)
           ELSE EvolveStepDone(r.scr)
    /\ UNCHANGED disk

\* the finally clause of go_previous_generation
GoPreviousFinally(scr) ==
    [scr EXCEPT !.cursor = @ - 1,
                !.btn_evolve = TRUE,
                !.btn_prev_gen = (scr.generation > 0)]

\* ---- go_previous_generation, from the click to processEvents() in
\* render_population_grid
GoPreviousBegin ==
    /\ UNCHANGED <<evalVars, unitVars>>
    /\ CanDispatch
    /\ screen.btn_prev_gen
    /\ UNCHANGED <<disk, faults>>
    /\ IF screen.generation <= 0
       THEN /\ ev' = "go_previous_generation: nothing to do"
            /\ UNCHANGED <<backend, screen, stack>>
       ELSE /\ Len(stack) < MaxStack
            /\ LET scr1 == [screen EXCEPT !.btn_prev_gen = FALSE,
                                          !.btn_evolve = FALSE,
                                          !.cursor = @ + 1]
                   o    == BA_load_generation(backend, disk, screen.generation - 1)
               IN  /\ backend' = o.be
                   /\ IF o.exc # "none"
                      THEN /\ screen' = GoPreviousFinally(scr1)
                           /\ ev' = "go_previous_generation: Error loading generation: " \o o.exc
                           /\ UNCHANGED stack
                      ELSE LET scr2 == [scr1 EXCEPT !.generation = o.be.generation] IN
                           IF o.be.population = <<>>
                           THEN /\ screen' = GoPreviousFinally(
                                      [scr2 EXCEPT !.widgets = <<>>,
                                                   !.selected_indices = {},
                                                   !.current_selected_index = None])
                                /\ ev' = "go_previous_generation: Loaded generation"
                                /\ UNCHANGED stack
                           ELSE /\ screen' = RenderGridBegin(scr2)
                                /\ stack' = Append(stack,
                                               Frame("go_previous_generation", "render"))
                                /\ ev' = "go_previous_generation: rendering"

\* ---- go_previous_generation, from the return of processEvents() to the end
GoPreviousFinish ==
    /\ UNCHANGED <<evalVars, unitVars>>
    /\ stack # <<>> /\ Top = Frame("go_previous_generation", "render")
    /\ \E f \in Faults :
        LET r == RenderGridEnd(screen, backend, f.failed, f.crash) IN
        /\ f.io_ok
        /\ faults' = faults + Count(f)
        /\ backend' = r.be
        /\ screen' = GoPreviousFinally(r.scr)
        /\ ev' = IF r.exc # "none"
                 THEN "go_previous_generation: Error loading generation: " \o r.exc
                 ELSE "go_previous_generation: Loaded generation"
    /\ stack' = Pop(stack)
    /\ UNCHANGED disk

\* ================================================================
\* Part III : two runs from one creation form
\* ================================================================
\* CreatePopulationScreen: spin_pop, spin_genes and the text of edit_seed
\* (None: the text is not a number)
FormSeeds == 0 .. NumGenomes
Forms ==
    [ spin_pop : 1 .. (MaxPop + 1), spin_genes : {1}, edit_seed : FormSeeds \cup {None} ]

\* the selections a script of evolve calls is made of, invalid ones included
Scripts ==
    UNION { [1 .. n -> Selections] : n \in 0 .. MaxGen }

\* a BackendAdapter that has been in use before initialize is called
UsedBackends ==
    { [NewBackend EXCEPT !.generation = g, !.rng = r] :
        g \in 0 .. 1, r \in 0 .. (NumGenomes - 1) }

RunIds == 1 .. 2
NotStarted == -1

\* CreatePopulationScreen.update_preview: the population shown in the preview
\* grid; random_seed is the draw of np.random.randint when no seed is given
update_preview(form, random_seed) ==
    LET seed == IF form.edit_seed # None THEN form.edit_seed ELSE random_seed
    IN  initialize_population(form.spin_pop, seed)

\* CreatePopulationScreen.accept_data: the params of population_created
accept_data(form) ==
    [ pop_name |-> "A", pop_size |-> form.spin_pop, genes |-> form.spin_genes,
      seed |-> form.edit_seed ]

IdleRuns ==
    [ form |-> [spin_pop |-> 1, spin_genes |-> 1, edit_seed |-> None],
      script |-> <<>>, preview |-> <<>>, previewed |-> FALSE,
      be |-> [r \in RunIds |-> NewBackend],
      created |-> [r \in RunIds |-> <<>>],
      n |-> [r \in RunIds |-> NotStarted], last |-> "none" ]

InitRuns ==
    \E form \in Forms, script \in Scripts, bes \in [RunIds -> UsedBackends] :
        runs = [IdleRuns EXCEPT !.form = form, !.script = script, !.be = bes]

UpdatePreview ==
    /\ UNCHANGED exceptRuns
    /\ ~runs.previewed
    /\ \E random_seed \in FormSeeds :
         runs' = [runs EXCEPT !.preview = update_preview(runs.form, random_seed),
                              !.previewed = TRUE]

\* population_created -> BackendAdapter.initialize, for a form with a seed
RunInitialize ==
    /\ UNCHANGED exceptRuns
    /\ \E r \in RunIds :
        /\ runs.n[r] = NotStarted
        /\ runs.form.edit_seed # None
        /\ LET p == accept_data(runs.form)
               o == BA_initialize(runs.be[r], EmptyDisk, p.pop_size, p.genes,
                                  p.seed, p.pop_name)
           IN  runs' = [runs EXCEPT !.be[r] = o.be,
                                    !.created[r] = o.be.population,
                                    !.n[r] = 0]

\* the next evolve call of the script
RunEvolve ==
    /\ UNCHANGED exceptRuns
    /\ \E r \in RunIds :
        /\ runs.n[r] # NotStarted
        /\ runs.n[r] < Len(runs.script)
        /\ LET o == BA_evolve(runs.be[r], EmptyDisk, runs.script[runs.n[r] + 1])
           IN  runs' = [runs EXCEPT !.be[r] = o.be,
                                    !.n[r] = @ + 1,
                                    !.last = o.exc]

NextRuns ==
    \/ UpdatePreview
    \/ RunInitialize
    \/ RunEvolve

\* ================================================================
\* Part IV : the mutation engine (src.core.evolution), on genome trees
\* ================================================================
\* a probability of the MutationConfig, in percent, and a draw from the
\* stream: the mutation fires when the draw falls below the probability
Fires(prob, draw) == draw < prob
Draws == {0, 99}
PickDraws == 0 .. (MaxNodes - 2)
\* a value is drawn from the stream only for a mutation that fires
DrawnIf(fires, S) == IF fires THEN S ELSE { CHOOSE x \in S : TRUE }

MutationConfigs ==
    [ gene_mutation_prob : {50}, add_primitive_prob : {0, 50},
      remove_primitive_prob : {50, 100}, operator_mutation_prob : {50} ]

\* the primitives initialize and add_primitive generate
FreshGenes ==
    { g \in Genes : g.kind = "disk" /\ g.transform.dx = 0 }

RECURSIVE CountPrimitives(_)
CountPrimitives(n) ==
    IF n.cls = "PrimitiveNode" THEN 1
    ELSE LET RECURSIVE Sum(_)
             Sum(cs) == IF cs = <<>> THEN 0
                        ELSE CountPrimitives(Head(cs)) + Sum(Tail(cs))
         IN  Sum(n.children)

RECURSIVE CountNodes(_)
CountNodes(n) ==
    IF n.cls = "PrimitiveNode" THEN 1
    ELSE LET RECURSIVE Sum(_)
             Sum(cs) == IF cs = <<>> THEN 0
                        ELSE CountNodes(Head(cs)) + Sum(Tail(cs))
         IN  1 + Sum(n.children)

\* the node at path p (child positions from the root)
RECURSIVE NodeAt(_, _)
NodeAt(n, p) == IF p = <<>> THEN n ELSE NodeAt(n.children[Head(p)], Tail(p))

RECURSIVE ReplaceAt(_, _, _)
ReplaceAt(n, p, m) ==
    IF p = <<>> THEN m
    ELSE [n EXCEPT !.children[Head(p)] = ReplaceAt(@, Tail(p), m)]

RemoveIndex(sq, i) == SubSeq(sq, 1, i - 1) \o SubSeq(sq, i + 1, Len(sq))

\* the tree without the node at the non-empty path p
RECURSIVE RemoveAt(_, _)
RemoveAt(n, p) ==
    IF Len(p) = 1 THEN [n EXCEPT !.children = RemoveIndex(@, p[1])]
    ELSE [n EXCEPT !.children[Head(p)] = RemoveAt(@, Tail(p))]

\* the paths of a tree in pre-order, and those of its leaves and operators
RECURSIVE PathSeq(_)
PathSeq(n) ==
    <<<<>>>> \o
    (IF n.cls = "PrimitiveNode" THEN <<>>
     ELSE LET RECURSIVE Under(_)
              Under(i) ==
                  IF i > Len(n.children) THEN <<>>
                  ELSE LET sub == PathSeq(n.children[i])
                       IN  [k \in 1 .. Len(sub) |-> <<i>> \o sub[k]] \o Under(i + 1)
          IN  Under(1))

LeafPaths(n) ==
    LET IsLeaf(p) == NodeAt(n, p).cls = "PrimitiveNode" IN SelectSeq(PathSeq(n), IsLeaf)
OpPaths(n) ==
    LET IsOp(p) == NodeAt(n, p).cls = "OpNode" IN SelectSeq(PathSeq(n), IsOp)

\* rng.integers(len(paths)): the element the draw k selects
Pick(paths, k) == paths[(k % Len(paths)) + 1]

\* per-gene perturbation of the transform: the translation noise moves the
\* primitive to the neighbouring cell
perturb(n, p) ==
    ReplaceAt(n, p, [NodeAt(n, p) EXCEPT !.gene.transform.dx = 1 - @])

\* attach a fresh primitive: under a new OpNode when the root is a primitive,
\* under the existing OpNode at p otherwise
add_primitive(n, p, kind, gene) ==
    IF n.cls = "PrimitiveNode"
    THEN OpNode(kind, <<n, PrimitiveNode(gene)>>)
    ELSE ReplaceAt(n, p, [NodeAt(n, p) EXCEPT
                             !.children = Append(@, PrimitiveNode(gene))])

\* mutant: the leaf is deleted whatever is left
remove_primitive_unguarded(n, p) ==
    IF p = <<>> THEN OpNode("union", <<>>) ELSE RemoveAt(n, p)

\* delete the leaf at p, provided the genome retains at least one primitive
remove_primitive(n, p) ==
    IF CountPrimitives(n) - 1 >= 1 /\ p # <<>> THEN RemoveAt(n, p) ELSE n

\* resample the kind of the OpNode at p
mutate_operator(n, p, kind) ==
    IF kind # NodeAt(n, p).kind
    THEN ReplaceAt(n, p, [NodeAt(n, p) EXCEPT !.kind = kind])
    ELSE n

\* mutate(genome, config, rng): the draws are taken in this order
mutate(genome, cfg, d) ==
    LET g1 == IF Fires(cfg.gene_mutation_prob, d.gene) /\ LeafPaths(genome) # <<>>
              THEN perturb(genome, Pick(LeafPaths(genome), d.leaf)) ELSE genome
        g2 == IF Fires(cfg.add_primitive_prob, d.add)
                 /\ CountNodes(g1) + (IF g1.cls = "PrimitiveNode" THEN 2 ELSE 1) <= MaxNodes
              THEN add_primitive(g1, IF g1.cls = "PrimitiveNode" THEN <<>>
                                     ELSE Pick(OpPaths(g1), d.op),
                                 d.kind, d.fresh)
              ELSE g1
        g3 == IF Fires(cfg.remove_primitive_prob, d.remove) /\ LeafPaths(g2) # <<>>
              THEN remove_primitive(g2, Pick(LeafPaths(g2), d.victim)) ELSE g2
        g4 == IF Fires(cfg.operator_mutation_prob, d.operator) /\ OpPaths(g3) # <<>>
              THEN mutate_operator(g3, Pick(OpPaths(g3), d.op), d.kind) ELSE g3
    IN  [ genome |-> g4,
          removed |-> CountNodes(g3) < CountNodes(g2),
          refused |-> Fires(cfg.remove_primitive_prob, d.remove)
                        /\ LeafPaths(g2) # <<>> /\ g3 = g2 ]

\* genomes of generation 0: num_genes fresh primitives under one operator
InitialGenomes ==
    { PrimitiveNode(g) : g \in FreshGenes }
    \cup { OpNode(k, <<PrimitiveNode(g), PrimitiveNode(h)>>) :
             k \in OpKinds, g \in FreshGenes, h \in FreshGenes }

IdleMut ==
    [ genome |-> PrimitiveNode(CHOOSE g \in FreshGenes : TRUE),
      cfg |-> CHOOSE c \in MutationConfigs : TRUE,
      removed |-> FALSE, refused |-> FALSE ]

InitMut ==
    \E g \in InitialGenomes, c \in MutationConfigs :
        mut = [IdleMut EXCEPT !.genome = g, !.cfg = c]

\* one offspring step of evolve
Mutate ==
    /\ UNCHANGED exceptMut
    /\ \E gd \in Draws, addd \in Draws, rd \in Draws, od \in Draws, fresh \in FreshGenes :
       \E leaf   \in DrawnIf(Fires(mut.cfg.gene_mutation_prob, gd), PickDraws),
          victim \in DrawnIf(Fires(mut.cfg.remove_primitive_prob, rd), PickDraws),
          op     \in DrawnIf(Fires(mut.cfg.add_primitive_prob, addd)
                               \/ Fires(mut.cfg.operator_mutation_prob, od), PickDraws),
          kind   \in DrawnIf(Fires(mut.cfg.add_primitive_prob, addd)
                               \/ Fires(mut.cfg.operator_mutation_prob, od), OpKinds) :
         LET m == mutate(mut.genome, mut.cfg,
                         [gene |-> gd, add |-> addd, remove |-> rd, operator |-> od,
                          leaf |-> leaf, victim |-> victim, op |-> op, kind |-> kind,
                          fresh |-> fresh])
         IN  mut' = [mut EXCEPT !.genome = m.genome, !.removed = m.removed,
                                !.refused = m.refused]

NextMut == Mutate

\* ================================================================
\* Part V : export of a genome and _parse_tree (tree_renderer.py)
\* ================================================================
\* a colour as the list of its three channel values, and the colour a list
\* of three channel values is
Channels(color) == [ch \in 1 .. 3 |-> <<color[2], ch>>]
ColorOf(c1, c2, c3) ==
    IF c1[1] = c2[1] /\ c2[1] = c3[1] /\ c1[2] = 1 /\ c2[2] = 2 /\ c3[2] = 3
    THEN <<"rgb", c1[1]>>
    ELSE <<"rgb", <<c1, c2, c3>>>>
DefaultColor == <<"rgb", "0.7">>

\* to_composition_dict (src.core): primitive gene fields, with the optional
\* polygon_vertices, or operator fields with the ordered children
PrimitiveFields(gene) ==
    LET base == [ kind      |-> gene.kind,
                  transform |-> [sx |-> gene.transform.sx, dx |-> gene.transform.dx],
                  color_rgb |-> Channels(gene.color_rgb) ]
    IN  IF gene.polygon_vertices = NoVertices THEN base
        ELSE ("polygon_vertices" :> gene.polygon_vertices) @@ base

RECURSIVE to_composition_dict(_)
to_composition_dict(n) ==
    IF n.cls = "PrimitiveNode"
    THEN [primitive |-> PrimitiveFields(n.gene)]
    ELSE [op |-> n.kind,
          children |-> [i \in 1 .. Len(n.children) |->
                           to_composition_dict(n.children[i])]]

TreeNode(kind, label, color_rgb, children, primitive_payload, geometry) ==
    [ kind |-> kind, label |-> label, color_rgb |-> color_rgb, children |-> children,
      primitive_payload |-> primitive_payload, geometry |-> geometry ]

NoPayload == [kind |-> "none"]

\* the colour tuple _parse_tree reads from a primitive
ParsedColor(prim) ==
    LET color == Get(prim, "color_rgb", Channels(DefaultColor)) IN
    IF Len(color) >= 3 THEN ColorOf(color[1], color[2], color[3]) ELSE DefaultColor

\* mutant: the transform is read from the primitive itself, so the defaults apply
ParsedGene_default_transform(prim) ==
    PrimitiveGene(Get(prim, "kind", "primitive"),
                  Transform(Get(prim, "sx", 1), Get(prim, "dx", 0)),
                  ParsedColor(prim),
                  Get(prim, "polygon_vertices", NoVertices))

\* the PrimitiveGene _parse_tree builds from a primitive
ParsedGene(prim) ==
    LET transform_data == Get(prim, "transform", <<>>) IN
    PrimitiveGene(Get(prim, "kind", "primitive"),
                  Transform(Get(transform_data, "sx", 1), Get(transform_data, "dx", 0)),
                  ParsedColor(prim),
                  Get(prim, "polygon_vertices", NoVertices))

\* str(op).lower().strip(): the operator kinds are lower-case words
LowerStrip(op) == op

RECURSIVE _parse_tree(_)
_parse_tree(node_obj) ==
    IF "primitive" \in DOMAIN node_obj
    THEN LET prim     == node_obj.primitive
             gene     == ParsedGene(prim)
             label    == IF gene.kind = "polygon" /\ gene.polygon_vertices # NoVertices
                         THEN <<gene.kind, gene.polygon_vertices.n>>
                         ELSE <<gene.kind>>
             geometry == gene_to_shapely(gene)
         IN  IF geometry.exc THEN Raised
             ELSE Returned(TreeNode("primitive", label, gene.color_rgb, <<>>,
                                    prim, geometry.val))
    ELSE LET op  == Get(node_obj, "op", "operator")
             raw == Get(node_obj, "children", <<>>)
             cs  == [i \in 1 .. Len(raw) |-> _parse_tree(raw[i])]
         IN  IF \E i \in 1 .. Len(cs) : cs[i].exc THEN Raised
             ELSE Returned(TreeNode("op", LowerStrip(op), <<>>,
                                    [i \in 1 .. Len(cs) |-> cs[i].val],
                                    NoPayload, Polygon))

\* the genomes exported
ExportGenomes == UNION { TreesOfSize(k) : k \in 1 .. (MaxNodes - 1) }

IdleExp ==
    [ genome |-> PrimitiveNode(CHOOSE g \in FreshGenes : TRUE),
      stage |-> "idle", dict |-> <<>>, tree |-> Raised ]

InitExp ==
    \E g \in ExportGenomes : exp = [IdleExp EXCEPT !.genome = g, !.stage = "genome"]

\* BackendAdapter.get_individual_composition_dict
Export ==
    /\ exp.stage = "genome"
    /\ exp' = [exp EXCEPT !.dict = to_composition_dict(exp.genome), !.stage = "exported"]
    /\ UNCHANGED exceptExp

\* render_tree_to_png_bytes: root = _parse_tree(composition_dict)
Parse ==
    /\ exp.stage = "exported"
    /\ exp' = [exp EXCEPT !.tree = _parse_tree(exp.dict), !.stage = "parsed"]
    /\ UNCHANGED exceptExp

NextExp ==
    \/ Export
    \/ Parse

\* ================================================================
\* Part VI : loading serialized data that may lack fields
\* ================================================================
\* the dicts a generation file may hold: each key present or not
SerializedConfigs ==
    { [population_size |-> 1, num_genes |-> 1, random_seed |-> sd] : sd \in Seeds }
SerializedPopulations == { <<g>> : g \in 0 .. (NumGenomes - 1) }

Restrict(d, keys) == [k \in keys |-> d[k]]

SerializedData ==
    LET full == { [config |-> c, data |-> dt, generation |-> g] :
                    c  \in SerializedConfigs,
                    dt \in {EmptyDict} \cup { [population |-> p] : p \in SerializedPopulations },
                    g  \in 0 .. MaxGen }
    IN  { Restrict(d, keys) : d \in full, keys \in SUBSET {"config", "data", "generation"} }

\* an adapter with a population in memory
LoadedBackends ==
    { [NewBackend EXCEPT !.pop_name = "A", !.dirs = TRUE, !.generation = g,
                         !.population = p,
                         !.cfg = [population_size |-> 1, num_genes |-> 1, random_seed |-> 0]] :
        g \in 1 .. MaxGen, p \in SerializedPopulations }

IdleLoad ==
    [ be |-> NewBackend, before |-> NewBackend, data |-> EmptyDict,
      op |-> "none", exc |-> "none" ]

InitLoad ==
    \E be \in LoadedBackends, data \in SerializedData :
        ld = [IdleLoad EXCEPT !.be = be, !.before = be, !.data = data]

\* backend.load_population(pop_name), the file holding ld.data
LoadPopulationData ==
    /\ ld.op = "none"
    /\ LET o == load_population_data(ld.be, EmptyDisk, "A", ld.data)
       IN  ld' = [ld EXCEPT !.be = o.be, !.exc = o.exc, !.op = "load_population"]
    /\ UNCHANGED exceptLd

\* backend.load_generation(generation - 1), the file holding ld.data
LoadGenerationData ==
    /\ ld.op = "none"
    /\ LET o == load_generation_data(ld.be, EmptyDisk, ld.be.generation - 1, ld.data)
       IN  ld' = [ld EXCEPT !.be = o.be, !.exc = o.exc, !.op = "load_generation"]
    /\ UNCHANGED exceptLd

NextLoad ==
    \/ LoadPopulationData
    \/ LoadGenerationData

\* ================================================================
\* Part VII : MutationPanel (mutation_panel.py)
\* ================================================================
\* floats are fixed-point numbers: Unit stands for 1.0
Unit == 10000
SliderMin == 0
SliderMax == 100

\* PARAM_DEFINITIONS: (min_val, max_val) of every parameter
PARAM_DEFINITIONS ==
    [ gene_mutation_prob     |-> [min_val |-> 0, max_val |-> Unit],
      add_primitive_prob     |-> [min_val |-> 0, max_val |-> Unit],
      remove_primitive_prob  |-> [min_val |-> 0, max_val |-> Unit],
      operator_mutation_prob |-> [min_val |-> 0, max_val |-> Unit],
      translate_sigma        |-> [min_val |-> 0, max_val |-> Unit \div 2],
      rotate_sigma           |-> [min_val |-> 0, max_val |-> Unit \div 2],
      scale_sigma            |-> [min_val |-> 0, max_val |-> Unit \div 2],
      color_sigma            |-> [min_val |-> 0, max_val |-> Unit \div 2] ]

ParamNames == DOMAIN PARAM_DEFINITIONS

\* mutant: the slider position is not scaled to the parameter's range
_on_slider_updated_unscaled(param_name, min_val, max_val, int_value) ==
    [ param_name |-> param_name,
      float_value |-> min_val + (Unit * int_value) \div 100 ]

\* MutationPanel._on_slider_updated: the (param_name, float_value) emitted
\* through parameter_changed
_on_slider_updated(param_name, min_val, max_val, int_value) ==
    [ param_name |-> param_name,
      float_value |-> min_val + ((max_val - min_val) * int_value) \div 100 ]

NoParam == "none"

\* the slider last moved or refreshed: its parameter, its position, the value
\* last emitted for it, the value the live mutation configuration holds for
\* it, the method that ran last and whether that emitted parameter_changed
IdlePanel ==
    [ param_name |-> NoParam, int_value |-> 0, float_value |-> 0, live |-> 0,
      op |-> "none", signal |-> FALSE ]

\* QSlider.setValue on a slider of range 0..100: the position is bound to
\* the range; a changed position emits valueChanged unless signals are
\* blocked, and valueChanged runs _on_slider_updated, whose parameter_changed
\* is connected to BackendAdapter.update_mutation_config
setValue(pnl, int_val, blocked) ==
    LET bound == IF int_val < SliderMin THEN SliderMin
                 ELSE IF int_val > SliderMax THEN SliderMax ELSE int_val
        e     == _on_slider_updated(pnl.param_name,
                                    PARAM_DEFINITIONS[pnl.param_name].min_val,
                                    PARAM_DEFINITIONS[pnl.param_name].max_val, bound)
    IN  IF bound = pnl.int_value THEN pnl
        ELSE IF blocked THEN [pnl EXCEPT !.int_value = bound]
        ELSE [pnl EXCEPT !.int_value = bound, !.float_value = e.float_value,
                         !.live = e.float_value, !.signal = TRUE]

\* mutant: the slider is set without blocking its signals
update_ui_unblocked(pnl, config_obj) ==
    LET q == [pnl EXCEPT !.op = "update_ui", !.signal = FALSE] IN
    IF config_obj = None THEN q
    ELSE LET min_val == PARAM_DEFINITIONS[pnl.param_name].min_val
             max_val == PARAM_DEFINITIONS[pnl.param_name].max_val
             int_val == ((config_obj - min_val) * 100) \div (max_val - min_val)
         IN  setValue(q, int_val, FALSE)

\* MutationPanel.update_ui for the slider of pnl.param_name; config_obj is
\* None or the value the config object holds for that parameter
update_ui(pnl, config_obj) ==
    LET q == [pnl EXCEPT !.op = "update_ui", !.signal = FALSE] IN
    IF config_obj = None THEN q
    ELSE LET min_val == PARAM_DEFINITIONS[pnl.param_name].min_val
             max_val == PARAM_DEFINITIONS[pnl.param_name].max_val
             int_val == ((config_obj - min_val) * 100) \div (max_val - min_val)
         IN  setValue(q, int_val, TRUE)

\* the values a config object may hold for a parameter, and no config at all
ConfigObjs(param_name) ==
    LET min_val == PARAM_DEFINITIONS[param_name].min_val
        max_val == PARAM_DEFINITIONS[param_name].max_val
    IN  {None, min_val, min_val + (max_val - min_val) \div 3, max_val}

\* the user moves the slider of p to int_value: valueChanged(int_value) ->
\* _on_slider_updated -> parameter_changed ->
\* BackendAdapter.update_mutation_config
Moved(p, int_value) ==
    LET e == _on_slider_updated(p, PARAM_DEFINITIONS[p].min_val,
                                PARAM_DEFINITIONS[p].max_val, int_value)
    IN  [ param_name |-> e.param_name, int_value |-> int_value,
          float_value |-> e.float_value, live |-> e.float_value,
          op |-> "slider", signal |-> TRUE ]

SliderMoved ==
    /\ \E p \in ParamNames, int_value \in SliderMin .. SliderMax :
         panel' = Moved(p, int_value)
    /\ UNCHANGED exceptPanel

\* the slider positions the refresh is followed from
Marks ==
    {SliderMin, SliderMax \div 4, SliderMax \div 3, SliderMax \div 2, SliderMax}

SliderPlaced ==
    /\ \E p \in ParamNames, int_value \in Marks :
         panel' = Moved(p, int_value)
    /\ UNCHANGED exceptPanel

\* set_population_data refreshes the panel from a config
UpdateUi ==
    /\ panel.param_name # NoParam
    /\ \E config_obj \in ConfigObjs(panel.param_name) :
         panel' = update_ui(panel, config_obj)
    /\ UNCHANGED exceptPanel

NextPanel == SliderMoved

NextRefresh ==
    \/ SliderPlaced
    \/ UpdateUi

\* ================================================================
\* Part VIII : the list objects of process_node (geometry_utils.py)
\* ================================================================
\* Python lists are objects: the heap h is the sequence of the lists
\* allocated so far, a list is known by its position in h.  A list
\* literal `[]` allocates, `.append` writes the list it is called on.
\* children_results and subtractors hold references and geometries, not
\* patches; they are dropped when the call returns and are left out.
NewList(h) == [h |-> Append(h, <<>>), at |-> Len(h) + 1]

\* the appends made to the list at `at`, in order
ListAppend(h, at, items) == [h EXCEPT ![at] = @ \o items]

\* mutant: the patches are rewritten in existing_patches itself
shatter_in_place(h, existing_patches, new_geom, new_color) ==
    LET shape_to_add == fix_geom(new_geom) IN
    IF is_empty(shape_to_add) THEN [h |-> h, at |-> existing_patches]
    ELSE [ h  |-> [h EXCEPT ![existing_patches] =
                      ShatterLoop(h[existing_patches], new_color, <<>>, shape_to_add)],
           at |-> existing_patches ]

\* _shatter_and_blend_with_color_alg: next_gen_patches = [] is allocated
\* first; the early return hands back existing_patches itself
shatter_lists(h, existing_patches, new_geom, new_color) ==
    LET next_gen_patches == NewList(h)
        shape_to_add     == fix_geom(new_geom)
    IN  IF is_empty(shape_to_add)
        THEN [h |-> next_gen_patches.h, at |-> existing_patches]
        ELSE [ h  |-> ListAppend(next_gen_patches.h, next_gen_patches.at,
                          ShatterLoop(h[existing_patches], new_color, <<>>, shape_to_add)),
               at |-> next_gen_patches.at ]

\* the contents of the lists at the addresses `ats`
Contents(h, ats) == [i \in 1 .. Len(ats) |-> h[ats[i]]]

\* union: current_patches is rebound to what the helper returns
RECURSIVE UnionLists(_, _, _)
UnionLists(h, current_patches, incoming) ==
    IF incoming = <<>> THEN [h |-> h, at |-> current_patches]
    ELSE LET s == shatter_lists(h, current_patches,
                                Head(incoming).geom, Head(incoming).color)
         IN  UnionLists(s.h, s.at, Tail(incoming))

\* intersection: new_shapes = [] for every later child
RECURSIVE IntersectLists(_, _, _)
IntersectLists(h, current_shapes, rest) ==
    IF rest = <<>> THEN [h |-> h, at |-> current_shapes]
    ELSE LET new_shapes == NewList(h) IN
         IntersectLists(
             ListAppend(new_shapes.h, new_shapes.at,
                        IntersectPass(h[current_shapes], h[Head(rest)])),
             new_shapes.at, Tail(rest))

\* difference: current_shapes itself is returned on every path that does
\* not subtract; final_shapes = [] otherwise
DifferenceLists(h, children_results) ==
    LET current_shapes == Head(children_results)
        all            == Flatten(Contents(h, Tail(children_results)))
        subtractors    == [i \in 1 .. Len(all) |-> all[i].geom]
    IN  IF subtractors = <<>> THEN [h |-> h, at |-> current_shapes]
        ELSE IF Raises("unary_union", CellsOfAll(subtractors))
        THEN [h |-> h, at |-> current_shapes]
        ELSE LET total_subtractor == fix_geom(GeosUnaryUnion(subtractors)) IN
             IF is_empty(total_subtractor) THEN [h |-> h, at |-> current_shapes]
             ELSE LET final_shapes == NewList(h) IN
                  [ h  |-> ListAppend(final_shapes.h, final_shapes.at,
                               SubtractAll(h[current_shapes], total_subtractor)),
                    at |-> final_shapes.at ]

CombineLists(kind, h, children_results) ==
    CASE kind = "union" ->
           UnionLists(h, Head(children_results),
                      Flatten(Contents(h, Tail(children_results))))
      [] kind = "intersection" ->
           IntersectLists(h, Head(children_results), Tail(children_results))
      [] kind = "difference" -> DifferenceLists(h, children_results)
      [] OTHER -> NewList(h)

\* a list handed back by a call, with what it held at that moment
ReturnedList(h, at) == [at |-> at, val |-> h[at]]

\* process_node over the heap: the outcome carries the heap left behind,
\* the address of the list returned, and every list any call returned
RECURSIVE process_node_lists(_, _, _), ChildrenLists(_, _)
process_node_lists(n, h, log) ==
    IF n.cls = "PrimitiveNode"
    THEN LET g == gene_to_shapely(n.gene) IN
         IF g.exc THEN [exc |-> TRUE, h |-> h, at |-> 0, log |-> log]
         ELSE LET l  == NewList(h)
                  h1 == IF is_empty(g.val) THEN l.h
                        ELSE ListAppend(l.h, l.at, <<Patch(g.val, n.gene.color_rgb)>>)
              IN  [exc |-> FALSE, h |-> h1, at |-> l.at,
                   log |-> log \cup {ReturnedList(h1, l.at)}]
    ELSE LET cs == ChildrenLists(n.children,
                       [exc |-> FALSE, h |-> h, log |-> log, children_results |-> <<>>])
         IN  IF cs.exc THEN [exc |-> TRUE, h |-> cs.h, at |-> 0, log |-> cs.log]
             ELSE LET r == IF cs.children_results = <<>> THEN NewList(cs.h)
                           ELSE CombineLists(n.kind, cs.h, cs.children_results)
                  IN  [exc |-> FALSE, h |-> r.h, at |-> r.at,
                       log |-> cs.log \cup {ReturnedList(r.h, r.at)}]

\* for child in node.children: res = process_node(child); if res: append
ChildrenLists(children, st) ==
    IF children = <<>> \/ st.exc THEN st
    ELSE LET r == process_node_lists(Head(children), st.h, st.log) IN
         ChildrenLists(Tail(children),
             [ exc |-> r.exc, h |-> r.h, log |-> r.log,
               children_results |->
                   IF ~r.exc /\ r.h[r.at] # <<>>
                   THEN Append(st.children_results, r.at)
                   ELSE st.children_results ])

\* the genomes evaluated in turn: one genome, another, and both again
PureGenomes == UNION { TreesOfSize(k) : k \in 1 .. (MaxNodes - 1) }

PureOthers ==
    { PrimitiveNode(g) : g \in FreshGenes }
    \cup { OpNode("union", <<PrimitiveNode(a), PrimitiveNode(b)>>) :
             a \in FreshGenes, b \in { g \in Genes : g.kind = "square" /\ g.transform.sx = 1 } }

PureOracles == { o \in Oracles : o.op \in {"none", "unary_union"} /\ o.spot = 0 }

EvalOrder == <<"genome", "other", "genome", "other">>

IdlePure ==
    [ genome |-> IdleNode, other |-> IdleNode,
      heap |-> <<>>, log |-> {}, calls |-> <<>> ]

InitPure ==
    \E g \in PureGenomes, o \in PureOthers :
        pure = [IdlePure EXCEPT !.genome = g, !.other = o]

\* one more call of process_node, on the heap the earlier calls left
PureEvaluate ==
    /\ Len(pure.calls) < Len(EvalOrder)
    /\ LET which == EvalOrder[Len(pure.calls) + 1]
           r     == process_node_lists(pure[which], pure.heap, pure.log)
       IN  pure' = [pure EXCEPT
                      !.heap = r.h, !.log = r.log,
                      !.calls = Append(@, [ which |-> which, exc |-> r.exc,
                                            val |-> IF r.exc THEN <<>> ELSE r.h[r.at] ])]
    /\ UNCHANGED exceptPure

NextPure == PureEvaluate

\* ================================================================
\* Part IX : fix_geom, safe_intersection, safe_difference on any geometry
\* ================================================================
\* the areas a geometry may cover
Shapes == { cs \in SUBSET Cells : Cardinality(cs) <= 2 }

\* the shapely geometries handed in: valid polygons and multipolygons (the
\* empty polygon among them), self-crossing polygons, a line, collections
\* of polygons and lines, the empty collection
GeoInputs ==
    { Polygonal(cs) : cs \in Shapes }
    \cup { Geom("Polygon", FALSE, cs, FALSE) : cs \in Shapes \ {{}} }
    \cup { Geom("LineString", TRUE, {}, TRUE) }
    \cup { Geom("GeometryCollection", TRUE, cs, TRUE) : cs \in Shapes \ {{}} }
    \cup { Geom("GeometryCollection", TRUE, {}, FALSE) }

\* what geom.buffer(0) may do: raise, or return some geometry
BufferOutcomes == {Raised} \cup { Returned(g) : g \in GeoInputs }

GeoOracles == { o \in Oracles : o.op # "affine" }

IdleGeo ==
    [ op |-> "none", arity |-> 2, a |-> Polygon, b |-> Polygon,
      buffer0 |-> Raised, out |-> Polygon ]

InitGeo ==
    \/ \E a \in GeoInputs, b \in GeoInputs :
         geo = [IdleGeo EXCEPT !.a = a, !.b = b]
    \/ \E a \in GeoInputs \cup {NoGeom} :
         geo = [IdleGeo EXCEPT !.arity = 1, !.a = a, !.b = NoGeom]

\* fix_geom(a), buffer(0) doing any of the things it may do
FixGeom ==
    /\ geo.op = "none" /\ geo.arity = 1
    /\ \E buffer0 \in BufferOutcomes :
         geo' = [geo EXCEPT !.op = "fix_geom", !.buffer0 = buffer0,
                            !.out = fix_geom_with(geo.a, buffer0)]
    /\ UNCHANGED exceptGeo

SafeIntersection ==
    /\ geo.op = "none" /\ geo.arity = 2
    /\ geo' = [geo EXCEPT !.op = "safe_intersection",
                          !.out = safe_intersection(geo.a, geo.b)]
    /\ UNCHANGED exceptGeo

SafeDifference ==
    /\ geo.op = "none" /\ geo.arity = 2
    /\ geo' = [geo EXCEPT !.op = "safe_difference",
                          !.out = safe_difference(geo.a, geo.b)]
    /\ UNCHANGED exceptGeo

NextGeo ==
    \/ FixGeom
    \/ SafeIntersection
    \/ SafeDifference

\* ================================================================
\* Part X : the futures of render_all_previews_parallel
\* ================================================================
PoolSizes == 1 .. (MaxPop + 1)
PoolSeeds == 0 .. (NumGenomes - 1)

NoImage == [png |-> -2]      \* None : results = [None] * len(population)

IdlePool ==
    [ be |-> NewBackend, stage |-> "idle", use_cache |-> TRUE,
      results |-> <<>>, pending |-> {},
      failed |-> {} ]            \* the indices whose worker raised in this call

\* backend.initialize(pop_size, genes, seed) between two calls
PoolInitialize ==
    /\ pool.stage \in {"idle", "returned"}
    /\ \E pop_size \in PoolSizes, seed \in PoolSeeds :
         pool' = [IdlePool EXCEPT
                    !.be = BA_initialize(pool.be, EmptyDisk, pop_size, 1, seed, "A").be]
    /\ UNCHANGED exceptPool

\* the call up to the submission of one future per individual; with every
\* key (generation, idx) in the cache the cached images are returned at once
RenderCall ==
    /\ pool.stage \in {"idle", "returned"}
    /\ pool.be.population # <<>>
    /\ \E use_cache \in BOOLEAN :
         LET n  == Len(pool.be.population)
             be == pool.be
         IN  IF use_cache /\ \A i \in 0 .. (n - 1) : <<be.generation, i>> \in DOMAIN be.cache
             THEN pool' = [pool EXCEPT
                             !.stage = "returned", !.use_cache = use_cache,
                             !.results = [i \in 1 .. n |-> be.cache[<<be.generation, i - 1>>]],
                             !.pending = {}, !.failed = {}]
             ELSE pool' = [pool EXCEPT
                             !.stage = "waiting", !.use_cache = use_cache,
                             !.results = [i \in 1 .. n |-> NoImage],
                             !.pending = 0 .. (n - 1), !.failed = {}]
    /\ UNCHANGED exceptPool

\* mutant: the empty payload of a failed worker is cached like an image
Completed_caches_failure(p, idx, ok) ==
    LET be        == p.be
        img_bytes == IF ok THEN genome_to_png_bytes(be.population[idx + 1])
                     ELSE FailedRender
        cache_key == <<be.generation, idx>>
    IN  [p EXCEPT
           !.results[idx + 1] = img_bytes,
           !.pending = @ \ {idx},
           !.failed = IF ok THEN @ ELSE @ \cup {idx},
           !.be.cache =
               IF p.use_cache
               THEN [key \in DOMAIN be.cache \cup {cache_key} |->
                        IF key = cache_key THEN img_bytes ELSE be.cache[key]]
               ELSE @]

\* one pass of the as_completed loop for the future of idx:
\* results[idx] = future.result(), cached under (generation, idx) when
\* use_cache; or results[idx] = b"" when the worker raised
Completed(p, idx, ok) ==
    LET be        == p.be
        img_bytes == genome_to_png_bytes(be.population[idx + 1])
        cache_key == <<be.generation, idx>>
    IN  [p EXCEPT
           !.results[idx + 1] = IF ok THEN img_bytes ELSE FailedRender,
           !.pending = @ \ {idx},
           !.failed = IF ok THEN @ ELSE @ \cup {idx},
           !.be.cache =
               IF ok /\ p.use_cache
               THEN [key \in DOMAIN be.cache \cup {cache_key} |->
                        IF key = cache_key THEN img_bytes ELSE be.cache[key]]
               ELSE @]

\* as_completed yields the next finished future, whichever it is
FutureCompletes ==
    /\ pool.stage = "waiting"
    /\ \E idx \in pool.pending, ok \in BOOLEAN :
         pool' = Completed(pool, idx, ok)
    /\ UNCHANGED exceptPool

\* every future was consumed: return results
RenderReturn ==
    /\ pool.stage = "waiting"
    /\ pool.pending = {}
    /\ pool' = [pool EXCEPT !.stage = "returned"]
    /\ UNCHANGED exceptPool

NextPool ==
    \/ PoolInitialize
    \/ RenderCall
    \/ FutureCompletes
    \/ RenderReturn

\* ================================================================
\* Part XI : the public methods of BackendAdapter, called in any order
\* ================================================================
\* generations reached by evolving on without snapshots
AdMaxGen == MaxGen + 2

\* BackendAdapter.save_hq_individual: the file is written by the renderer,
\* the adapter is only read
BA_save_hq_individual(be, dsk, index, fmt) ==
    IF index >= Len(be.population) THEN Outcome("IndexError", be, dsk)
    ELSE IF ~be.dirs THEN Outcome("KeyError", be, dsk)
    ELSE IF fmt \notin {"png", "svg"} THEN Outcome("ValueError", be, dsk)
    ELSE Outcome("none", be, dsk)

\* get_average_genome_size, get_individual_genome_size,
\* get_individual_composition_dict, get_mutation_config: pop_state is read
BA_get(be, dsk, index) ==
    IF index >= Len(be.population) THEN Outcome("IndexError", be, dsk)
    ELSE Outcome("none", be, dsk)

\* PopulationStateManager.update_mutation_config: one entry of the live
\* mutation configuration is replaced
update_mutation_config(live, param_name, value) ==
    [live EXCEPT ![param_name] = value]

\* MutationConfig(): every parameter at the low end of its range
DefaultLive == [p \in ParamNames |-> PARAM_DEFINITIONS[p].min_val]

ReadOnlyOps ==
    { "render_all_previews_parallel", "save_hq_individual", "save_generation_state",
      "get", "update_mutation_config" }

IdleAd ==
    [ be |-> NewBackend, dsk |-> EmptyDisk, live |-> DefaultLive,
      op |-> "none", exc |-> "none" ]

\* the adapter after a call that had outcome o
Called(op, o) ==
    [ad EXCEPT !.be = o.be, !.dsk = o.dsk, !.op = op, !.exc = o.exc]

\* initialize, for a population of one individual
AdInitialize ==
    /\ \E pop_size \in {1}, seed \in Seeds :
         ad' = Called("initialize",
                      BA_initialize(ad.be, ad.dsk, pop_size, 1, seed, "A"))
    /\ UNCHANGED exceptAd

AdLoadPopulation ==
    /\ \E k \in 0 .. MaxGen :
         ad' = Called("load_population", BA_load_population(ad.be, ad.dsk, "A", k))
    /\ UNCHANGED exceptAd

AdLoadGeneration ==
    /\ \E generation \in 0 .. MaxGen :
         ad' = Called("load_generation", BA_load_generation(ad.be, ad.dsk, generation))
    /\ UNCHANGED exceptAd

AdEvolve ==
    /\ ad.be.generation < MaxGen
    /\ \E selected_indices \in Selections :
         ad' = Called("evolve", BA_evolve(ad.be, ad.dsk, selected_indices))
    /\ UNCHANGED exceptAd

\* evolve, called past the generations that get a snapshot
AdEvolveOn ==
    /\ ad.be.generation >= MaxGen
    /\ ad.be.generation < AdMaxGen
    /\ \E selected_indices \in Selections :
         ad' = Called("evolve", BA_evolve(ad.be, ad.dsk, selected_indices))
    /\ UNCHANGED exceptAd

AdRender ==
    /\ \E failed \in SUBSET Indices :
         LET r == BA_render_all_previews_parallel(ad.be, failed) IN
         ad' = Called("render_all_previews_parallel", Outcome("none", r.be, ad.dsk))
    /\ UNCHANGED exceptAd

AdSaveGeneration ==
    /\ ad' = Called("save_generation_state",
                    BA_save_generation_state(ad.be, ad.dsk, ad.be.generation, TRUE))
    /\ UNCHANGED exceptAd

AdSaveHq ==
    /\ \E index \in 0 .. MaxPop, fmt \in {"png", "svg", "gif"} :
         ad' = Called("save_hq_individual",
                      BA_save_hq_individual(ad.be, ad.dsk, index, fmt))
    /\ UNCHANGED exceptAd

AdGet ==
    /\ \E index \in 0 .. MaxPop :
         ad' = Called("get", BA_get(ad.be, ad.dsk, index))
    /\ UNCHANGED exceptAd

AdUpdateMutationConfig ==
    /\ \E p \in {"gene_mutation_prob"}, value \in {Unit} :
         ad' = [Called("update_mutation_config", Outcome("none", ad.be, ad.dsk))
                    EXCEPT !.live = update_mutation_config(ad.live, p, value)]
    /\ UNCHANGED exceptAd

NextAd ==
    \/ AdInitialize
    \/ AdLoadPopulation
    \/ AdLoadGeneration
    \/ AdEvolve
    \/ AdRender
    \/ AdSaveGeneration
    \/ AdSaveHq
    \/ AdGet
    \/ AdUpdateMutationConfig

\* initialize, render and evolve only, through AdMaxGen generations
NextChain ==
    \/ AdInitialize
    \/ AdRender
    \/ AdEvolve
    \/ AdEvolveOn

\* ================================================================
\* Specifications
\* ================================================================
InitApp ==
    /\ backend = NewBackend
    /\ disk = EmptyDisk
    /\ screen = NewScreen
    /\ stack = <<>>
    /\ ev = "start"
    /\ faults = 0

Pending == [done |-> FALSE, exc |-> FALSE, val |-> <<>>]

\* the parts that take no step in a specification stay as constructed
IdleBut(part) ==
    /\ IF part = "runs" THEN TRUE ELSE runs = IdleRuns
    /\ IF part = "mut"  THEN TRUE ELSE mut = IdleMut
    /\ IF part = "exp"  THEN TRUE ELSE exp = IdleExp
    /\ IF part = "ld"   THEN TRUE ELSE ld = IdleLoad
    /\ IF part = "panel" THEN TRUE ELSE panel = IdlePanel
    /\ IF part = "pure" THEN TRUE ELSE pure = IdlePure
    /\ IF part = "geo"  THEN TRUE ELSE geo = IdleGeo
    /\ IF part = "pool" THEN TRUE ELSE pool = IdlePool
    /\ IF part = "ad"   THEN TRUE ELSE ad = IdleAd

InitUnits == IdleBut("none")

InitEval ==
    /\ node \in Genomes
    /\ geos \in Oracles
    /\ result = Pending
    /\ InitApp
    /\ InitUnits

\* the renderer calls process_node(genome.root)
Evaluate ==
    /\ ~result.done
    /\ result' = [done |-> TRUE] @@ process_node(node)
    /\ UNCHANGED <<node, geos>>
    /\ UNCHANGED <<appVars, unitVars>>

NextEval == Evaluate

SpecEval == InitEval /\ [][NextEval]_vars

\* the genome evaluated in Part I plays no part in Part II
Init ==
    /\ InitApp
    /\ InitUnits
    /\ node = PrimitiveNode(CHOOSE g \in Genes : g.kind = "square" /\ g.transform.sx = 1)
    /\ geos = [op |-> "none", spot |-> 0]
    /\ result = Pending

Next ==
    \/ CreatePopulation
    \/ LoadPopulation
    \/ HandleSelection
    \/ EvolveStepBegin
    \/ EvolveStepEvolve
    \/ EvolveStepFinish
    \/ GoPreviousBegin
    \/ GoPreviousFinish

Spec == Init /\ [][Next]_vars

IdleEval ==
    /\ node = IdleNode
    /\ geos = [op |-> "none", spot |-> 0]
    /\ result = Pending

StartRuns ==
    /\ InitApp /\ IdleEval /\ IdleBut("runs") /\ InitRuns

SpecRuns == StartRuns /\ [][NextRuns]_vars

StartMut ==
    /\ InitApp /\ IdleEval /\ IdleBut("mut") /\ InitMut

SpecMut == StartMut /\ [][NextMut]_vars

StartExp ==
    /\ InitApp /\ node = IdleNode /\ geos \in Oracles /\ result = Pending
    /\ IdleBut("exp") /\ InitExp

SpecExp == StartExp /\ [][NextExp]_vars

StartPanel ==
    /\ InitApp /\ IdleEval /\ IdleBut("none")

SpecPanel == StartPanel /\ [][NextPanel]_vars
SpecRefresh == StartPanel /\ [][NextRefresh]_vars

StartLoad ==
    /\ InitApp /\ IdleEval /\ IdleBut("ld") /\ InitLoad

SpecLoad == StartLoad /\ [][NextLoad]_vars

StartGeo ==
    /\ InitApp /\ node = IdleNode /\ geos \in GeoOracles /\ result = Pending
    /\ IdleBut("geo") /\ InitGeo

SpecGeo == StartGeo /\ [][NextGeo]_vars

StartPool ==
    /\ InitApp /\ IdleEval /\ IdleBut("none")

SpecPool == StartPool /\ [][NextPool]_vars

StartAd ==
    /\ InitApp /\ IdleEval /\ IdleBut("none")

SpecAd == StartAd /\ [][NextAd]_vars
SpecChain == StartAd /\ [][NextChain]_vars

StartPure ==
    /\ InitApp /\ node = IdleNode /\ geos \in PureOracles /\ result = Pending
    /\ IdleBut("pure") /\ InitPure

SpecPure == StartPure /\ [][NextPure]_vars

\* ====================================================== Part I properties
Covered(patches) == UNION { patches[i].geom.cells : i \in 1 .. Len(patches) }

\* the evaluation returned (it did not raise)
EvalReturned == result.done /\ ~result.exc

\* partitions of the root's children, as process_node computes them
ChildVal(i) == process_node(node.children[i]).val
NumChildren == Len(node.children)

IsRootOp(kind) == node.cls = "OpNode" /\ node.kind = kind

Disjoint(patches) ==
    \A i \in 1 .. Len(patches), j \in 1 .. Len(patches) :
        i < j => patches[i].geom.cells \cap patches[j].geom.cells = {}

\* C1: for any genome tree the regions returned by evaluate are pairwise
\* non-overlapping, on every execution path of the geometric operations,
\* fail-soft fallbacks included.
C1_PartitionOnEveryPath == EvalReturned => Disjoint(result.val)

\* C2: for a union node the cells covered by the output are exactly the cells
\* covered by the regions of all its children's partitions: shattering neither
\* loses nor adds area.
C2_UnionPreservesCover ==
    (EvalReturned /\ IsRootOp("union")) =>
        Covered(result.val) = UNION { Covered(ChildVal(i)) : i \in 1 .. NumChildren }

C2_Witness ==
    /\ EvalReturned /\ IsRootOp("union") /\ NumChildren = 2
    /\ Len(ChildVal(1)) = 1 /\ Len(ChildVal(2)) = 1
    /\ Covered(ChildVal(1)) \cap Covered(ChildVal(2)) # {}
    /\ Covered(ChildVal(1)) # Covered(ChildVal(2))
    /\ Len(result.val) = 3

\* two single-piece children that overlap without one containing the other
PartialOverlapUnion ==
    /\ IsRootOp("union") /\ NumChildren = 2
    /\ Len(ChildVal(1)) = 1 /\ Len(ChildVal(2)) = 1
    /\ LET a == ChildVal(1)[1].geom.cells
           b == ChildVal(2)[1].geom.cells
       IN  a \cap b # {} /\ a \ b # {} /\ b \ a # {}

\* C3: a union of two single-piece children (region_a, color_a) and
\* (region_b, color_b) that partially overlap evaluates to exactly three
\* non-empty pieces, in this order: region_a minus region_b with color_a, the
\* overlap with or_color(color_a, color_b), region_b minus region_a with
\* color_b.  Stated for evaluations in which no geometric operation raises.
C3_UnionThreePieces ==
    (EvalReturned /\ geos.op = "none" /\ PartialOverlapUnion) =>
        LET a == ChildVal(1)[1]
            b == ChildVal(2)[1]
        IN  /\ result.val =
                 << Patch(Polygonal(a.geom.cells \ b.geom.cells), a.color),
                    Patch(Polygonal(a.geom.cells \cap b.geom.cells),
                          or_color(a.color, b.color)),
                    Patch(Polygonal(b.geom.cells \ a.geom.cells), b.color) >>
            /\ \A i \in 1 .. 3 : result.val[i].geom.cells # {}

C3_Witness ==
    /\ EvalReturned /\ geos.op = "none" /\ PartialOverlapUnion
    /\ Len(result.val) = 3
    /\ result.val[2].color = or_color(<<"rgb", "red">>, <<"rgb", "green">>)

\* C4: for a difference node every output region lies inside the area covered
\* by the first child and outside the area covered by every remaining child,
\* whatever each child evaluates to (empty or not).  Stated for evaluations
\* in which no geometric operation raises.
C4_DifferenceFirstChildIsMinuend ==
    (EvalReturned /\ geos.op = "none" /\ IsRootOp("difference")) =>
        /\ Covered(result.val) \subseteq Covered(ChildVal(1))
        /\ \A i \in 2 .. NumChildren : Covered(result.val) \cap Covered(ChildVal(i)) = {}

\* C5: for an intersection node every output region lies inside the area
\* covered by each child, whatever each child evaluates to (empty or not).
\* Stated for evaluations in which no geometric operation raises.
C5_IntersectionInsideEveryChild ==
    (EvalReturned /\ geos.op = "none" /\ IsRootOp("intersection")) =>
        \A i \in 1 .. NumChildren : Covered(result.val) \subseteq Covered(ChildVal(i))

\* C6: every (region, colour) pair returned by evaluate has a non-empty
\* region, on every path; and when no geometric operation raises, a non-empty
\* minuend fully covered by its subtrahend evaluates to the empty sequence.
C6_NoEmptyPieces ==
    EvalReturned =>
        /\ \A i \in 1 .. Len(result.val) :
              ~is_empty(result.val[i].geom) /\ result.val[i].geom.cells # {}
        /\ (/\ geos.op = "none" /\ IsRootOp("difference")
            /\ ChildVal(1) # <<>>
            /\ Covered(ChildVal(1)) \subseteq
                 UNION { Covered(ChildVal(i)) : i \in 2 .. NumChildren })
           => result.val = <<>>

\* the square minus the disk that covers it
C6_Witness ==
    /\ EvalReturned /\ geos.op = "none" /\ IsRootOp("difference")
    /\ NumChildren = 2
    /\ node.children[1].cls = "PrimitiveNode" /\ node.children[1].gene.kind = "square"
    /\ ChildVal(1) # <<>>
    /\ node.children[2].cls = "PrimitiveNode" /\ node.children[2].gene.kind = "disk"
    /\ Covered(ChildVal(1)) \subseteq Covered(ChildVal(2))
    /\ result.val = <<>>

\* C7: evaluate is total: for any genome tree it returns a sequence and never
\* raises, whichever primitive is malformed and whichever geometric operation
\* fails.
C7_EvaluateNeverRaises == result.done => ~result.exc

\* ===================================================== Part II properties
\* this step is the part of evolve_step that calls backend.evolve
IsEvolveCall ==
    /\ stack # <<>> /\ Top = Frame("evolve_step", "loading")
    /\ stack' # stack /\ Len(stack') <= Len(stack)

\* C8: calling evolve with an empty selection or an out-of-range index
\* reports InvalidSelection and leaves population and generation unchanged:
\* BackendAdapter.generation is not incremented when the underlying evolve
\* fails, and evolve_step with no selection warns without calling the
\* backend, advancing the generation or saving a snapshot.
C8_InvalidSelectionRejected ==
    [][ /\ \A sel \in Selections :
              InvalidSelection(sel, backend.population) =>
                  LET o == BA_evolve(backend, disk, sel) IN
                  /\ o.exc = "InvalidSelection"
                  /\ o.be.generation = backend.generation
                  /\ o.be.population = backend.population
                  /\ o.dsk = disk
        /\ (IsEvolveCall
              /\ InvalidSelection(screen.selected_indices, backend.population)) =>
                  /\ ev' = "evolve_step: Error during evolution: InvalidSelection"
                  /\ backend'.generation = backend.generation
                  /\ backend'.population = backend.population
                  /\ screen'.generation = screen.generation
                  /\ disk' = disk
        /\ (ev' = "evolve_step: Selection Required") =>
                  /\ backend' = backend
                  /\ disk' = disk
                  /\ screen'.generation = screen.generation
      ]_vars

\* backend.evolve was called from evolve_step with an empty selection
C8_Witness ==
    /\ ev = "evolve_step: Error during evolution: InvalidSelection"
    /\ backend.population # <<>>
    /\ backend.generation = screen.generation

\* C9: every successful evolve increases BackendAdapter.generation by exactly
\* 1, from any reachable state, including after a load jumped to an earlier
\* or later persisted generation.
C9_EvolveIncrementsByOne ==
    [][ /\ \A sel \in Selections :
              ~InvalidSelection(sel, backend.population) =>
                  BA_evolve(backend, disk, sel).be.generation = backend.generation + 1
        /\ (IsEvolveCall
              /\ ~InvalidSelection(screen.selected_indices, backend.population)) =>
                  backend'.generation = backend.generation + 1
      ]_vars

\* generation 2 was reached and saved, an earlier generation was loaded, and
\* an evolve from there has just produced generation 1
C9_Witness ==
    /\ ev = "evolve_step: Generation created and saved"
    /\ backend.generation = 1
    /\ \E n \in Names : disk[n][2].exists

\* C10: while evolve_step is in progress, processEvents() included, no
\* second evolve_step and no go_previous_generation starts on the backend.
C10_SingleWriter ==
    \A i \in 1 .. Len(stack), j \in 1 .. Len(stack) :
        (i < j /\ stack[i].h = "evolve_step") =>
            stack[j].h \notin {"evolve_step", "go_previous_generation"}

C12_PopulationLengthConstant ==
    [][ \A r \in RunIds :
          (/\ runs.n[r] # NotStarted
           /\ runs'.n[r] = runs.n[r] + 1
           /\ ~InvalidSelection(runs.script[runs.n[r] + 1], runs.be[r].population)) =>
              /\ Len(runs'.be[r].population) = Len(runs.be[r].population)
              /\ Len(runs'.be[r].population) = runs'.be[r].cfg.population_size
              /\ runs'.be[r].population # <<>>
      ]_vars

\* a population of two evolved from a selection of one and from a selection
\* of two
C12_Witness ==
    /\ runs.n[1] = 2 /\ runs.be[1].generation = 2
    /\ Cardinality(runs.script[1]) = 1 /\ Cardinality(runs.script[2]) = 2
    /\ Len(runs.be[1].population) = 2

\* ====================================================== Part IV properties
\* C13: every genome in every generation contains at least one primitive,
\* for any mutation probabilities (remove_primitive_prob = 1 included) and
\* any number of generations.
C13_AtLeastOnePrimitive == CountPrimitives(mut.genome) >= 1

\* with remove_primitive_prob = 1 a genome was reduced to one primitive and
\* the next removal was refused
C13_Witness ==
    /\ mut.cfg.remove_primitive_prob = 100
    /\ mut.genome.cls = "OpNode"
    /\ CountPrimitives(mut.genome) = 1
    /\ mut.refused

\* ======================================================= Part V properties
\* the tree has the shape, the child order and the primitive fields of the genome
RECURSIVE SameTree(_, _)
SameTree(n, t) ==
    IF n.cls = "PrimitiveNode"
    THEN /\ t.kind = "primitive" /\ t.children = <<>>
         /\ ParsedGene(t.primitive_payload) = n.gene
         /\ t.color_rgb = n.gene.color_rgb
         /\ Returned(t.geometry) = gene_to_shapely(n.gene)
    ELSE /\ t.kind = "op" /\ t.label = n.kind
         /\ Len(t.children) = Len(n.children)
         /\ \A i \in 1 .. Len(n.children) : SameTree(n.children[i], t.children[i])

\* the genome a parsed tree describes
RECURSIVE GenomeOf(_)
GenomeOf(t) ==
    IF t.kind = "primitive" THEN PrimitiveNode(ParsedGene(t.primitive_payload))
    ELSE OpNode(t.label, [i \in 1 .. Len(t.children) |-> GenomeOf(t.children[i])])

\* C14: parsing the composition dict produced by to_composition_dict
\* reconstructs a tree with the same shape and child order and the same kind,
\* transform, colour and polygon vertices for every primitive, which
\* evaluates to the same partition as the original genome; the parse raises
\* only for a genome whose own evaluation raises.
C14_ExportRoundTrip ==
    exp.stage = "parsed" =>
        IF exp.tree.exc THEN process_node(exp.genome).exc
        ELSE /\ SameTree(exp.genome, exp.tree.val)
             /\ process_node(GenomeOf(exp.tree.val)) = process_node(exp.genome)

\* a difference of a polygon with vertices and a disk, in this order
C14_Witness ==
    /\ exp.stage = "parsed" /\ ~exp.tree.exc
    /\ exp.genome.cls = "OpNode" /\ exp.genome.kind = "difference"
    /\ Len(exp.tree.val.children) = 2
    /\ exp.tree.val.children[1].label = <<"polygon", 4>>
    /\ exp.tree.val.children[2].label = <<"disk">>
    /\ process_node(exp.genome).val # <<>>

\* ====================================================== Part VI properties
\* the data lacks the configuration or the population data
LacksRequired(data) ==
    \/ "config" \notin DOMAIN data
    \/ "data" \notin DOMAIN data
    \/ "population" \notin DOMAIN data.data

\* C15: loading serialized data that lacks the configuration or the
\* population data is reported as a load failure and leaves the in-memory
\* population, generation and directories unchanged; no default is
\* substituted for the missing data.
C15_LoadFailureOnMissingFields ==
    (ld.op # "none" /\ LacksRequired(ld.data)) =>
        /\ ld.exc # "none"
        /\ ld.be.population = ld.before.population
        /\ ld.be.generation = ld.before.generation
        /\ ld.be.dirs = ld.before.dirs

\* ===================================================== Part VII properties
\* C16: every value the mutation panel emits through parameter_changed, and
\* so passes to update_mutation_config, lies within its parameter's range for
\* every slider position 0..100: [0,1] for the four probabilities and
\* [0,0.5] for the four sigmas.
C16_EmittedValueInRange ==
    panel.param_name # NoParam =>
        /\ panel.live = panel.float_value
        /\ panel.float_value >= 0
        /\ panel.param_name \in {"gene_mutation_prob", "add_primitive_prob",
                                  "remove_primitive_prob", "operator_mutation_prob"}
              => panel.float_value <= Unit
        /\ panel.param_name \in {"translate_sigma", "rotate_sigma",
                                  "scale_sigma", "color_sigma"}
              => 2 * panel.float_value <= Unit

\* the colour sigma slider at its last position
C16_Witness ==
    /\ panel.param_name = "color_sigma"
    /\ panel.int_value = 100
    /\ 2 * panel.live = Unit

\* ================================================= Part VIII properties
\* C17: evaluation is pure.  No list that a process_node call returned (for
\* the root or for any child) is modified afterwards, by the rest of that
\* evaluation or by a later one; and evaluating a genome again, with
\* evaluations of another genome in between, gives the result it gave before.
C17_EvaluationIsPure ==
    /\ \A e \in pure.log : pure.heap[e.at] = e.val
    /\ \A i \in 1 .. Len(pure.calls), j \in 1 .. Len(pure.calls) :
         pure.calls[i].which = pure.calls[j].which
             => /\ pure.calls[i].exc = pure.calls[j].exc
                /\ pure.calls[i].val = pure.calls[j].val

\* both genomes were evaluated twice, the first is a union that shattered a
\* second child into the partition of its first child
C17_Witness ==
    /\ Len(pure.calls) = Len(EvalOrder)
    /\ pure.genome.cls = "OpNode" /\ pure.genome.kind = "union"
    /\ ~pure.calls[1].exc
    /\ Len(pure.calls[1].val) >= 3
    /\ \E e \in pure.log : e.val # <<>> /\ e.val # pure.calls[1].val

\* =================================================== Part IX properties
\* both attempts of the GEOS operation op on a and b raise: the call itself
\* and the retry on the repaired operands
FailsAfterRepair(op, a, b) ==
    /\ Raises(op, a.cells \cup b.cells)
    /\ Raises(op, fix_geom(a).cells \cup fix_geom(b).cells)

\* C18: safe_intersection returns an empty geometry when an operand is empty
\* or when the intersection fails even after repairing the operands;
\* safe_difference returns an empty geometry when the left operand is empty,
\* and otherwise the left operand itself when the right operand is empty or
\* when the difference fails even after repair.
C18_SafeOperationFallbacks ==
    /\ geo.op = "safe_intersection" =>
         /\ (is_empty(geo.a) \/ is_empty(geo.b)) => is_empty(geo.out)
         /\ FailsAfterRepair("intersection", geo.a, geo.b) => is_empty(geo.out)
    /\ geo.op = "safe_difference" =>
         /\ is_empty(geo.a) => is_empty(geo.out)
         /\ (~is_empty(geo.a) /\ is_empty(geo.b)) => geo.out = geo.a
         /\ (~is_empty(geo.a) /\ FailsAfterRepair("difference", geo.a, geo.b))
                => geo.out = geo.a

\* an intersection of two non-empty operands that failed twice
C18_Witness ==
    /\ geo.op = "safe_intersection"
    /\ ~is_empty(geo.a) /\ ~is_empty(geo.b)
    /\ FailsAfterRepair("intersection", geo.a, geo.b)
    /\ geo.out = Polygon

\* C19: fix_geom returns the empty polygon for a missing or empty input; the
\* input itself when it is a valid non-empty Polygon or MultiPolygon;
\* otherwise the result of buffer(0) when that is polygonal and non-empty,
\* the union of the polygonal members when it is a collection, and the empty
\* polygon in every other case, a raised exception included.
C19_FixGeomCases ==
    geo.op = "fix_geom" =>
        LET a == geo.a
            r == geo.buffer0
        IN  IF a = NoGeom \/ is_empty(a) THEN geo.out = Polygon
            ELSE IF a.valid /\ a.type \in PolygonTypes THEN geo.out = a
            ELSE IF r.exc THEN geo.out = Polygon
            ELSE IF r.val.type \in PolygonTypes /\ ~is_empty(r.val)
                 THEN geo.out = r.val
            ELSE IF r.val.type = "GeometryCollection" /\ ~Raises("unary_union", r.val.cells)
                 THEN /\ geo.out.cells = r.val.cells
                      /\ geo.out.valid /\ ~geo.out.degen
                      /\ geo.out.type \in PolygonTypes
            ELSE geo.out = Polygon

\* a self-crossing polygon whose buffer(0) is a collection with area
C19_Witness ==
    /\ geo.op = "fix_geom"
    /\ ~geo.a.valid /\ geo.a.cells # {}
    /\ ~geo.buffer0.exc
    /\ geo.buffer0.val.type = "GeometryCollection"
    /\ geo.out.cells = geo.buffer0.val.cells /\ geo.out.cells # {}

\* ==================================================== Part X properties
\* C20: render_all_previews_parallel returns one entry per individual, and
\* entry i is the rendering of population[i] (or the empty payload of a
\* worker that raised), whatever order the futures completed in.
C20_EntriesRenderThePopulation ==
    pool.stage = "returned" =>
        /\ Len(pool.results) = Len(pool.be.population)
        /\ \A i \in 1 .. Len(pool.results) :
             pool.results[i] \in
                 {genome_to_png_bytes(pool.be.population[i]), FailedRender}

\* ======================================== Part II properties, continued
\* no handler of the screen is in progress: the last one has returned
HandlersReturned == stack = <<>>

\* the indices of the IndividualWidgets in the grid that are selected
SelectedWidgets ==
    { i \in 0 .. (Len(screen.widgets) - 1) : screen.widgets[i + 1].is_selected }

\* C22: after any handler of the screen returns, on success or failure,
\* selected_indices is the set of indices of the displayed IndividualWidgets
\* that are in the selected state.
C22_SelectionMatchesGrid ==
    HandlersReturned => screen.selected_indices = SelectedWidgets

\* render_population_grid runs to its end in this step: the pool did not
\* raise and the images were put into the grid
GridPlaced ==
    \/ ev' \in {"create_population", "load_population"}
    \/ /\ stack # <<>> /\ Top.pc = "render"
       /\ stack' = Pop(stack)
       /\ ev' \in {"evolve_step: Generation created and saved",
                   "go_previous_generation: Loaded generation"}

\* C23: every preview image that render_population_grid places in the grid
\* was rendered from the genome then at that index of backend.population (a
\* worker that raised leaves the empty payload): the image cache never
\* supplies an image of another population to the grid.
C23_GridShowsThePopulation ==
    [][ GridPlaced =>
          \A i \in 1 .. Len(screen'.widgets) :
              /\ i <= Len(backend'.population)
              /\ screen'.widgets[i].image \in
                     {genome_to_png_bytes(backend'.population[i]), FailedRender}
      ]_vars

\* the grid was rendered for generation 1 a second time, after a return to
\* generation 0, with generation 2 on disk
C23_Witness ==
    /\ ev = "evolve_step: Generation created and saved"
    /\ backend.generation = 1
    /\ \E n \in Names : disk[n][2].exists
    /\ screen.widgets # <<>>
    /\ \A i \in 1 .. Len(screen.widgets) :
         screen.widgets[i].image = genome_to_png_bytes(backend.population[i])

\* C25: after every handler returns, whether it succeeded or raised
\* internally, EvolveScreen.generation equals BackendAdapter.generation and
\* is not negative.
C25_ScreenGenerationIsBackendGeneration ==
    HandlersReturned =>
        /\ screen.generation = backend.generation
        /\ screen.generation >= 0

\* evolve_step raised internally after the backend had moved on
C25_Witness ==
    /\ HandlersReturned
    /\ ev = "evolve_step: Error during evolution: OSError"
    /\ backend.generation >= 1
    /\ screen.generation = backend.generation

\* C26: every handler restores the override wait cursor once per set on
\* every path: with no handler in progress the override-cursor depth is what
\* it was before the first handler, zero.
C26_WaitCursorBalanced ==
    HandlersReturned => screen.cursor = 0

\* C30: current_selected_index is None or a member of selected_indices.
C30_CurrentIsSelected ==
    \/ screen.current_selected_index = None
    \/ screen.current_selected_index \in screen.selected_indices


\* an individual of a re-rendered grid was selected and is current
C30_Witness ==
    /\ backend.generation >= 1
    /\ screen.current_selected_index # None
    /\ screen.current_selected_index \in screen.selected_indices

\* ================================================================
\* Part XI properties : the public methods of BackendAdapter
\* ================================================================
AssigningOps == {"initialize", "load_population", "load_generation", "evolve"}

\* C21: the generation counter is advanced only by evolve, by one and only
\* when evolve returns; render_all_previews_parallel, save_hq_individual,
\* save_generation_state, the getters and update_mutation_config leave the
\* generation and the population as they were; apart from evolve only
\* initialize, which resets it to 0, and the two loads assign it.
C21_OnlyEvolveAdvances ==
    [][ /\ ad'.op \in ReadOnlyOps =>
             /\ ad'.be.generation = ad.be.generation
             /\ ad'.be.population = ad.be.population
        /\ ad'.be.generation # ad.be.generation => ad'.op \in AssigningOps
        /\ ad'.be.generation > ad.be.generation /\ ad'.op \notin {"load_population", "load_generation"}
             => /\ ad'.op = "evolve"
                /\ ad'.exc = "none"
                /\ ad'.be.generation = ad.be.generation + 1
        /\ ad'.op = "evolve" /\ ad'.exc # "none" => ad'.be.generation = ad.be.generation
        /\ ad'.op = "initialize" /\ ad'.exc = "none" => ad'.be.generation = 0
      ]_vars

\* a snapshot was written at a generation reached by evolving
C21_Witness ==
    /\ ad.op = "save_generation_state"
    /\ ad.exc = "none"
    /\ ad.be.generation = MaxGen
    /\ ad.dsk["A"][MaxGen].exists

\* C24: every cache entry keyed by the current generation holds the
\* rendering of the genome now at its index, after any sequence of
\* initialize, load_population, load_generation and evolve.
C24_CurrentEntriesAreCurrentGenomes ==
    \A key \in DOMAIN ad.be.cache :
        key[1] = ad.be.generation /\ key[2] < Len(ad.be.population)
            => ad.be.cache[key] = genome_to_png_bytes(ad.be.population[key[2] + 1])

\* C29: when evolve returns and has taken the adapter from generation g to
\* g + 1, the cache holds no entry of a generation below g - 2.
C29_EvolvePrunesOldEntries ==
    [][ /\ ad'.op = "evolve"
        /\ ad'.exc = "none"
        /\ ad'.be.generation = ad.be.generation + 1
        => \A key \in DOMAIN ad'.be.cache : ~(key[1] < ad.be.generation - 2)
      ]_vars

\* evolve has reached the last generation; the oldest entry it may keep is
\* still there and the entries of generation 0 are gone
C29_Witness ==
    /\ ad.op = "evolve"
    /\ ad.exc = "none"
    /\ ad.be.generation = AdMaxGen
    /\ <<AdMaxGen - 3, 0>> \in DOMAIN ad.be.cache
    /\ <<0, 0>> \notin DOMAIN ad.be.cache

\* ================================================================
\* Part X properties, continued
\* ================================================================
\* C27: when a worker raises, render_all_previews_parallel still returns one
\* entry per individual; the entry of the failed index is the empty payload,
\* the failure leaves the image cache as it was, so that no cache entry ever
\* holds the empty payload and a call that finds no entry for the index
\* renders it again, and every other index holds its own rendering.
C27_FailedWorkerLeavesNoTrace ==
    [][ /\ pool'.failed # pool.failed /\ pool'.failed # {}
            => /\ pool'.be.cache = pool.be.cache
               /\ \A idx \in pool'.failed \ pool.failed :
                      pool'.results[idx + 1] = FailedRender
        /\ pool'.stage = "returned" /\ pool'.failed # {}
            => /\ Len(pool'.results) = Len(pool'.be.population)
               /\ \A idx \in 0 .. (Len(pool'.be.population) - 1) :
                      pool'.results[idx + 1] =
                          IF idx \in pool'.failed THEN FailedRender
                          ELSE genome_to_png_bytes(pool'.be.population[idx + 1])
        /\ \A key \in DOMAIN pool'.be.cache : pool'.be.cache[key] # FailedRender
      ]_vars

\* a call with caching returned after one worker raised and another one
\* delivered; the failed index has no cache entry
C27_Witness ==
    /\ pool.stage = "returned"
    /\ pool.use_cache
    /\ pool.failed = {0}
    /\ Len(pool.results) = 2
    /\ pool.results[2] = genome_to_png_bytes(pool.be.population[2])
    /\ <<pool.be.generation, 0>> \notin DOMAIN pool.be.cache
    /\ <<pool.be.generation, 1>> \in DOMAIN pool.be.cache

\* ================================================================
\* Part VII properties, continued
\* ================================================================
\* C28: refreshing the mutation panel from a config never writes back:
\* update_ui emits no parameter_changed, so update_mutation_config is not
\* called and the live mutation configuration is what it was.
C28_RefreshNeverWritesBack ==
    [][ panel'.op = "update_ui"
        => /\ ~panel'.signal
           /\ panel'.live = panel.live
           /\ panel'.float_value = panel.float_value
      ]_vars

\* a refresh moved the slider away from the position that stands for the
\* live value
C28_Witness ==
    /\ panel.op = "update_ui"
    /\ panel.param_name = "translate_sigma"
    /\ panel.int_value = 33
    /\ panel.live = Unit \div 2


============================================================================
